---- MODULE Spec2Model ----
\* SH-2 HAL over I2C (src/Hillcrest/sh2_hal_i2c.c): the interrupt-to-task event
\* pipeline, the blocking bus transaction with its mutex and completion
\* semaphore, the reset sequence and the read-length state machine of halTask.
\*
\* Tasks interleave at every access to shared state (FreeRTOS is preemptive);
\* interrupt handlers run atomically.  The I2C peripheral driver and the sensor
\* hub are the environment: the driver accepts or refuses a transfer, and ends
\* every accepted transfer with exactly one completion or error callback.
EXTENDS Integers, Sequences, FiniteSets, TLC

\* ---------------------------------------------------------------- constants
MAX_EVENTS == 16
SHTP_HEADER_LEN == 4
ADDR_DFU_0 == 40
ADDR_DFU_1 == 41
ADDR_SH2_0 == 74
ADDR_SH2_1 == 75
\* declared in sh2_hal.h and sh2_hal_i2c.h; sh2_hal_init
\* wires control lines for unit 0 only and then calls them for every unit, so
\* the unit count is 1.
SH2_UNITS == 1
SH2_HAL_MAX_TRANSFER == 384

SH2_OK == "SH2_OK"
SH2_ERR_BAD_PARAM == "SH2_ERR_BAD_PARAM"
SH2_ERR_IO == "SH2_ERR_IO"
EVT_INTN == "EVT_INTN"

\* ------------------------------------------------------------------- bounds
\* Interrupts arrive in the concurrency specification only while fewer than
\* MaxPending events wait in the queue.
MaxPending == 1
\* Length of a caller's non-empty transmit or receive.
CallerLen == 2
\* Number of millisecond ticks the clock advances.
MaxTick == 1
\* Number of interrupts counted.
MaxPosts == 18

\* -------------------------------------------------------------------- tasks
HalTask == "halTask"
Callers == {"c1", "c2"}
Tasks == {HalTask} \cup Callers
NoTask == "none"

Units == 0 .. (SH2_UNITS - 1)
\* unit arguments a caller may pass: the valid ones and the first invalid one
UnitArgs == 0 .. SH2_UNITS

\* receive callbacks are function identities; 0 is the null pointer.  A caller
\* registers callback k together with cookie k.
NullFn == 0
Registrations == {[onRx |-> 0, cookie |-> 0], [onRx |-> 1, cookie |-> 1],
                  [onRx |-> 2, cookie |-> 2]}

\* Which tasks run: halTask with one caller (and interrupts), or two callers
\* competing while no interrupt arrives.
Scenarios == {{HalTask, "c1"}, {"c1", "c2"}}

VARIABLES
    i2cMutex,        \* holder of the bus mutex, or NoTask
    i2cBlockSem,     \* binary semaphore: 0 empty, 1 signalled
    i2cStatus,       \* status written by the completion handlers
    i2cResetNeeded,  \* the peripheral must be re-initialised before next use
    evtQueue,        \* FIFO of events from the EXTI handler to halTask
    sh2,             \* per unit: onRx, onRxCookie, addr, rxBuf, rxRemaining, blockSem
    gpio,            \* RSTN and BOOTN pins of unit 0
    bus,             \* driver: transfers accepted and not yet completed
    tick,            \* xTaskGetTickCount()
    pc,              \* position of every task
    xfer,            \* per task: arguments of its i2cBlockingRx/Tx call
    status,          \* per task: local 'status' of i2cBlockingRx/Tx
    call,            \* per caller: the public function it is in, with arguments
    ret,             \* per caller: value returned by the call that just ended
    event,           \* halTask: the event it dequeued
    readLen,         \* halTask: local readLen
    loaded,          \* halTask: onRx and cookie as loaded for the callback call
    outcome,         \* per task: how the driver ended the task's transfer
    delivered,       \* the callback invocation halTask is making
    active,          \* the tasks that run in this behaviour
    dev,             \* the sensor hub: bytes of its message still owed, INTN
    hist             \* history kept for the properties, never read by an action

vars == <<i2cMutex, i2cBlockSem, i2cStatus, i2cResetNeeded, evtQueue, sh2, gpio,
          bus, tick, pc, xfer, status, call, ret, event, readLen, loaded,
          outcome, delivered, active, dev, hist>>

\* ------------------------------------------------------------------ values
\* pData: the index of the unit whose rxBuf receives the bytes, -1 for a buffer
\* of the caller
UserBuf == -1
NoXfer == [dir |-> "none", addr |-> 0, len |-> 0, pData |-> UserBuf]
NoCall == [op |-> "none", unit |-> 0, dfuMode |-> FALSE, onRx |-> 0, cookie |-> 0,
           len |-> 0]
NoEvent == [t_ms |-> 0, id |-> "none", unit |-> 0]
NoLoad == [onRx |-> 0, cookie |-> 0]
NoDelivery == [onRx |-> 0, cookie |-> 0, len |-> 0, t_us |-> <<0, 0>>]

\* the hub has nothing to send.  total: the length its message declared first;
\* owed: the length it still owes, as its next header will declare it; cont: the
\* next header carries the continuation bit; irq: "raise" when it is about to
\* pull INTN, "wait" when it has and waits for the read, "idle" otherwise;
\* chunks: the reads it has answered
DevIdle == [total |-> 0, owed |-> 0, cont |-> FALSE, irq |-> "idle", chunks |-> 0]

\* mode: per unit, the mode of the last sh2_hal_reset that returned;
\* overlap: per caller, a reset was in progress during its current tx/rx call;
\* lastLen: the length of the last read halTask decoded a header from;
\* posted, consumed: interrupts taken and events dequeued;
\* burst: interrupts taken before the first event was dequeued;
\* drop: why halTask let go of the last event it dropped without a read;
\* lastStatus: what i2cBlockingRx returned to halTask for its last read;
\* reg: the registration of the last sh2_hal_reset that returned (none: {});
\* seen: reg when halTask dequeued the event it is handling;
\* since: the registrations of the resets in progress at that dequeue or
\* called after it;
\* stamp: the timestamp of the last callback
HistInit == [mode |-> [u \in Units |-> "none"],
             overlap |-> [c \in Callers |-> FALSE],
             lastLen |-> 0, posted |-> 0, consumed |-> 0, burst |-> 0,
             drop |-> "none", lastStatus |-> "none",
             reg |-> {}, seen |-> {}, since |-> {}, stamp |-> <<0, 0>>]

\* memset(&sh2[unit], 0, ...) and a freshly created (empty) binary semaphore
Sh2Zero == [onRx |-> NullFn, onRxCookie |-> 0, addr |-> 0, rxBuf |-> <<0, 0>>,
            rxRemaining |-> 0, blockSem |-> 0]

\* state after sh2_hal_init() has returned
Init ==
    /\ i2cMutex = NoTask
    /\ i2cBlockSem = 0
    /\ i2cStatus = SH2_OK
    /\ i2cResetNeeded = TRUE
    /\ evtQueue = <<>>
    /\ sh2 = [u \in Units |-> Sh2Zero]
    /\ gpio = [rstn |-> FALSE, bootn |-> TRUE]
    /\ bus = {}
    /\ tick = 0
    /\ pc = [t \in Tasks |-> IF t = HalTask THEN "W_receive" ELSE "idle"]
    /\ xfer = [t \in Tasks |-> NoXfer]
    /\ status = [t \in Tasks |-> SH2_OK]
    /\ call = [c \in Callers |-> NoCall]
    /\ ret = [c \in Callers |-> "none"]
    /\ event = NoEvent
    /\ readLen = 0
    /\ loaded = NoLoad
    /\ outcome = [t \in Tasks |-> "none"]
    /\ delivered = NoDelivery
    /\ active \in Scenarios
    /\ dev = DevIdle
    /\ hist = HistInit

\* ------------------------------------------------------ pure computations
\* line 169 / 172: the address of a unit in a mode, shifted for the driver
ResetAddr(unit, dfuMode) ==
    IF unit = 1
    THEN (IF dfuMode THEN ADDR_DFU_1 * 2 ELSE ADDR_SH2_1 * 2)
    ELSE (IF dfuMode THEN ADDR_DFU_0 * 2 ELSE ADDR_SH2_0 * 2)

\* the read length without the limit to the transfer size
ComputeReadLen_NoCap(rxRemaining) ==
    IF rxRemaining < SHTP_HEADER_LEN THEN SHTP_HEADER_LEN ELSE rxRemaining

\* lines 351-359: the length of the next read, from rxRemaining
ComputeReadLen(rxRemaining) ==
    LET atLeast == IF rxRemaining < SHTP_HEADER_LEN THEN SHTP_HEADER_LEN
                   ELSE rxRemaining
    IN  IF atLeast > SH2_HAL_MAX_TRANSFER THEN SH2_HAL_MAX_TRANSFER ELSE atLeast

\* the length field taken whole, continuation bit and all
CargoLen_NoMask(rxBuf) == rxBuf[2] * 256 + rxBuf[1]

\* line 365: ((rxBuf[1] << 8) + rxBuf[0]) & ~0x8000
CargoLen(rxBuf) ==
    LET v == rxBuf[2] * 256 + rxBuf[1]
    IN  IF v >= 32768 THEN v - 32768 ELSE v

\* the remainder without the header of the next chunk
NextRemaining_NoHeader(cargo, len) ==
    IF cargo > len THEN (cargo - len) % 65536 ELSE 0

\* lines 368-375: rxRemaining (uint16_t) after a read of len bytes
NextRemaining(cargo, len) ==
    IF cargo > len THEN ((cargo - len) + SHTP_HEADER_LEN) % 65536 ELSE 0

\* a send to a queue that grows without limit
xQueueSendFromISR_Unbounded(q, e) == Append(q, e)

\* xQueueSendFromISR on a queue of MAX_EVENTS slots: a full queue refuses
xQueueSendFromISR(q, e) ==
    IF Len(q) < MAX_EVENTS THEN Append(q, e) ELSE q

\* ------------------------------------------------------ interrupt handlers
\* the EXTI handler posts an event for unit 0, stamped with the tick count
HAL_GPIO_EXTI_Callback ==
    /\ evtQueue' = xQueueSendFromISR(evtQueue,
                       [t_ms |-> tick, id |-> EVT_INTN, unit |-> 0])
    /\ UNCHANGED <<active, i2cMutex, i2cBlockSem, i2cStatus, i2cResetNeeded, sh2, gpio,
                   bus, tick, pc, xfer, status, call, ret, event, readLen,
                   loaded, outcome, delivered>>

\* xSemaphoreGiveFromISR on a binary semaphore: it holds at most one signal
xSemaphoreGiveFromISR(sem) == 1

HAL_I2C_MasterTxCpltCallback ==
    /\ i2cStatus' = SH2_OK
    /\ i2cBlockSem' = xSemaphoreGiveFromISR(i2cBlockSem)

HAL_I2C_MasterRxCpltCallback ==
    /\ i2cStatus' = SH2_OK
    /\ i2cBlockSem' = xSemaphoreGiveFromISR(i2cBlockSem)

\* an error handler that reports success
HAL_I2C_ErrorCallback_Ok ==
    /\ i2cStatus' = SH2_OK
    /\ i2cBlockSem' = xSemaphoreGiveFromISR(i2cBlockSem)

HAL_I2C_ErrorCallback ==
    /\ i2cStatus' = SH2_ERR_IO
    /\ i2cBlockSem' = xSemaphoreGiveFromISR(i2cBlockSem)

\* -------------------------------------------------- the peripheral driver
\* HAL_I2C_Master_Receive_IT / Transmit_IT accepted (rc = 0): the transfer is
\* in flight until the driver calls one completion handler for it.
Driver_Issue(t) ==
    bus' = bus \cup {[task |-> t, dir |-> xfer[t].dir, addr |-> xfer[t].addr,
                      len |-> xfer[t].len, pData |-> xfer[t].pData]}

\* the bytes of a receive land in the buffer the issuer passed; only the
\* buffers of the units (pData = unit index) are part of the state
Driver_Store(x, hdr) ==
    IF x.dir = "rx" /\ x.pData \in Units
    THEN sh2' = [sh2 EXCEPT ![x.pData].rxBuf = hdr]
    ELSE UNCHANGED sh2

\* the transfer x ends normally; a receive has filled its buffer, whose first
\* two bytes are hdr
Driver_Complete(x, hdr) ==
    /\ x \in bus
    /\ bus' = bus \ {x}
    /\ Driver_Store(x, hdr)
    /\ IF x.dir = "rx" THEN HAL_I2C_MasterRxCpltCallback
       ELSE HAL_I2C_MasterTxCpltCallback
    /\ outcome' = [outcome EXCEPT ![x.task] = "cplt"]
    /\ UNCHANGED <<active, i2cMutex, i2cResetNeeded, evtQueue, gpio, tick, pc, xfer,
                   status, call, ret, event, readLen, loaded, delivered>>

\* the transfer x ends with a bus error; a receive may have stored some bytes
\* before (partial = TRUE) or none
Driver_Error(x, partial, hdr) ==
    /\ x \in bus
    /\ bus' = bus \ {x}
    /\ IF partial THEN Driver_Store(x, hdr) ELSE UNCHANGED sh2
    /\ HAL_I2C_ErrorCallback
    /\ outcome' = [outcome EXCEPT ![x.task] = "error"]
    /\ UNCHANGED <<active, i2cMutex, i2cResetNeeded, evtQueue, gpio, tick, pc, xfer,
                   status, call, ret, event, readLen, loaded, delivered>>

\* the millisecond tick advances
Tick ==
    /\ tick < MaxTick
    /\ tick' = tick + 1
    /\ UNCHANGED <<active, i2cMutex, i2cBlockSem, i2cStatus, i2cResetNeeded, evtQueue,
                   sh2, gpio, bus, pc, xfer, status, call, ret, event, readLen,
                   loaded, outcome, delivered>>

\* ------------------------------------------- i2cBlockingRx / i2cBlockingTx
\* where a task continues when its transaction returns
AfterXfer(t) == IF t = HalTask THEN "W_cargo" ELSE "done"

\* i2cBlockingRx/Tx going on without waiting for the mutex
i2cBlocking_Take_NoWait(t) ==
    /\ pc[t] = "X_take"
    /\ i2cMutex' = t
    /\ status' = [status EXCEPT ![t] = SH2_OK]
    /\ pc' = [pc EXCEPT ![t] = "X_reset"]
    /\ UNCHANGED <<active, i2cBlockSem, i2cStatus, i2cResetNeeded, evtQueue, sh2,
                   gpio, bus, tick, xfer, call, ret, event, readLen, loaded,
                   outcome, delivered>>

\* xSemaphoreTake(i2cMutex, portMAX_DELAY)
i2cBlocking_Take(t) ==
    /\ pc[t] = "X_take"
    /\ i2cMutex = NoTask
    /\ i2cMutex' = t
    /\ status' = [status EXCEPT ![t] = SH2_OK]
    /\ pc' = [pc EXCEPT ![t] = "X_reset"]
    /\ UNCHANGED <<active, i2cBlockSem, i2cStatus, i2cResetNeeded, evtQueue, sh2, gpio,
                   bus, tick, xfer, call, ret, event, readLen, loaded, outcome,
                   delivered>>

\* i2cBlockingRx/Tx going on to the transfer without looking at the flag
i2cBlocking_Reset_Skipped(t) ==
    /\ pc[t] = "X_reset"
    /\ pc' = [pc EXCEPT ![t] = "X_issue"]
    /\ UNCHANGED <<active, i2cMutex, i2cBlockSem, i2cStatus, i2cResetNeeded,
                   evtQueue, sh2, gpio, bus, tick, xfer, status, call, ret,
                   event, readLen, loaded, outcome, delivered>>

\* i2cReset(): HAL_I2C_DeInit, HAL_I2C_Init, clear the flag
i2cReset == i2cResetNeeded' = FALSE

\* if (i2cResetNeeded) i2cReset();
i2cBlocking_Reset(t) ==
    /\ pc[t] = "X_reset"
    /\ IF i2cResetNeeded THEN i2cReset ELSE UNCHANGED i2cResetNeeded
    /\ pc' = [pc EXCEPT ![t] = "X_issue"]
    /\ UNCHANGED <<active, i2cMutex, i2cBlockSem, i2cStatus, evtQueue, sh2, gpio, bus,
                   tick, xfer, status, call, ret, event, readLen, loaded,
                   outcome, delivered>>

\* a refused transfer returning SH2_ERR_IO from inside the else branch, before
\* the mutex is given back
i2cBlocking_Issue_EarlyReturn(t, rc) ==
    /\ pc[t] = "X_issue"
    /\ IF rc = 0
       THEN /\ Driver_Issue(t)
            /\ pc' = [pc EXCEPT ![t] = "X_wait"]
            /\ UNCHANGED <<status, outcome, ret>>
       ELSE /\ status' = [status EXCEPT ![t] = SH2_ERR_IO]
            /\ outcome' = [outcome EXCEPT ![t] = "refused"]
            /\ pc' = [pc EXCEPT ![t] = AfterXfer(t)]
            /\ ret' = IF t \in Callers THEN [ret EXCEPT ![t] = SH2_ERR_IO]
                      ELSE ret
            /\ UNCHANGED bus
    /\ UNCHANGED <<active, i2cMutex, i2cBlockSem, i2cStatus, i2cResetNeeded,
                   evtQueue, sh2, gpio, tick, xfer, call, event, readLen, loaded,
                   delivered>>

\* rc = HAL_I2C_Master_..._IT(hi2c, addr, pData, len); the else branch of
\* 'if (rc == 0)' sets status = SH2_ERR_IO
i2cBlocking_Issue(t, rc) ==
    /\ pc[t] = "X_issue"
    /\ IF rc = 0
       THEN /\ Driver_Issue(t)
            /\ pc' = [pc EXCEPT ![t] = "X_wait"]
            /\ UNCHANGED <<active, status, outcome>>
       ELSE /\ status' = [status EXCEPT ![t] = SH2_ERR_IO]
            /\ outcome' = [outcome EXCEPT ![t] = "refused"]
            /\ pc' = [pc EXCEPT ![t] = "X_give"]
            /\ UNCHANGED bus
    /\ UNCHANGED <<active, i2cMutex, i2cBlockSem, i2cStatus, i2cResetNeeded, evtQueue,
                   sh2, gpio, tick, xfer, call, ret, event, readLen, loaded,
                   delivered>>

\* i2cBlockingRx/Tx going on without waiting for the completion signal
i2cBlocking_Block_NoWait(t) ==
    /\ pc[t] = "X_wait"
    /\ i2cBlockSem' = 0
    /\ pc' = [pc EXCEPT ![t] = "X_status"]
    /\ UNCHANGED <<active, i2cMutex, i2cStatus, i2cResetNeeded, evtQueue, sh2,
                   gpio, bus, tick, xfer, status, call, ret, event, readLen,
                   loaded, outcome, delivered>>

\* xSemaphoreTake(i2cBlockSem, portMAX_DELAY)
i2cBlocking_Block(t) ==
    /\ pc[t] = "X_wait"
    /\ i2cBlockSem = 1
    /\ i2cBlockSem' = 0
    /\ pc' = [pc EXCEPT ![t] = "X_status"]
    /\ UNCHANGED <<active, i2cMutex, i2cStatus, i2cResetNeeded, evtQueue, sh2, gpio,
                   bus, tick, xfer, status, call, ret, event, readLen, loaded,
                   outcome, delivered>>

\* status = i2cStatus;
i2cBlocking_Status(t) ==
    /\ pc[t] = "X_status"
    /\ status' = [status EXCEPT ![t] = i2cStatus]
    /\ pc' = [pc EXCEPT ![t] = "X_give"]
    /\ UNCHANGED <<active, i2cMutex, i2cBlockSem, i2cStatus, i2cResetNeeded, evtQueue,
                   sh2, gpio, bus, tick, xfer, call, ret, event, readLen,
                   loaded, outcome, delivered>>

\* xSemaphoreGive(i2cMutex); return status;
i2cBlocking_Give(t) ==
    /\ pc[t] = "X_give"
    /\ i2cMutex' = NoTask
    /\ pc' = [pc EXCEPT ![t] = AfterXfer(t)]
    /\ ret' = IF t \in Callers THEN [ret EXCEPT ![t] = status[t]] ELSE ret
    /\ UNCHANGED <<active, i2cBlockSem, i2cStatus, i2cResetNeeded, evtQueue, sh2,
                   gpio, bus, tick, xfer, status, call, event, readLen, loaded,
                   outcome, delivered>>

\* ------------------------------------------------------------------ halTask
\* a receive that takes the newest event instead of the oldest
halTask_Receive_Newest ==
    /\ pc[HalTask] = "W_receive"
    /\ evtQueue # <<>>
    /\ evtQueue' = SubSeq(evtQueue, 1, Len(evtQueue) - 1)
    /\ IF evtQueue[Len(evtQueue)].unit >= SH2_UNITS
       THEN /\ event' = NoEvent
            /\ UNCHANGED pc
       ELSE /\ event' = evtQueue[Len(evtQueue)]
            /\ pc' = [pc EXCEPT ![HalTask] = "W_check"]
    /\ UNCHANGED <<active, i2cMutex, i2cBlockSem, i2cStatus, i2cResetNeeded, sh2,
                   gpio, bus, tick, xfer, status, call, ret, readLen, loaded,
                   outcome, delivered>>

\* Locals are reset where they die (they are assigned before they are read
\* again): the arguments and the ignored return value of i2cBlockingRx once the
\* header has been decoded, the others at the end of the loop body.
\* xQueueReceive(evtQueue, &event, portMAX_DELAY);
\* if (event.unit >= SH2_UNITS) continue;
halTask_Receive ==
    /\ pc[HalTask] = "W_receive"
    /\ evtQueue # <<>>
    /\ evtQueue' = Tail(evtQueue)
    /\ IF Head(evtQueue).unit >= SH2_UNITS
       THEN /\ event' = NoEvent
            /\ UNCHANGED pc
       ELSE /\ event' = Head(evtQueue)
            /\ pc' = [pc EXCEPT ![HalTask] = "W_check"]
    /\ UNCHANGED <<active, i2cMutex, i2cBlockSem, i2cStatus, i2cResetNeeded, sh2,
                   gpio, bus, tick, xfer, status, call, ret, readLen, loaded,
                   outcome, delivered>>

\* the test for a registered callback left out
halTask_Check_Unguarded ==
    /\ pc[HalTask] = "W_check"
    /\ IF event.id = EVT_INTN
       THEN /\ readLen' = ComputeReadLen(sh2[event.unit].rxRemaining)
            /\ pc' = [pc EXCEPT ![HalTask] = "W_addr"]
            /\ UNCHANGED event
       ELSE /\ pc' = [pc EXCEPT ![HalTask] = "W_receive"]
            /\ event' = NoEvent
            /\ UNCHANGED readLen
    /\ UNCHANGED <<active, i2cMutex, i2cBlockSem, i2cStatus, i2cResetNeeded, evtQueue,
                   sh2, gpio, bus, tick, xfer, status, call, ret, loaded,
                   outcome, delivered>>

\* switch (event.id) ... if (pSh2->onRx != 0) { compute readLen }
halTask_Check ==
    /\ pc[HalTask] = "W_check"
    /\ IF event.id = EVT_INTN /\ sh2[event.unit].onRx # NullFn
       THEN /\ readLen' = ComputeReadLen(sh2[event.unit].rxRemaining)
            /\ pc' = [pc EXCEPT ![HalTask] = "W_addr"]
            /\ UNCHANGED event
       ELSE /\ pc' = [pc EXCEPT ![HalTask] = "W_receive"]
            /\ event' = NoEvent
            /\ UNCHANGED readLen
    /\ UNCHANGED <<active, i2cMutex, i2cBlockSem, i2cStatus, i2cResetNeeded, evtQueue,
                   sh2, gpio, bus, tick, xfer, status, call, ret, loaded,
                   outcome, delivered>>

\* i2cBlockingRx(pSh2->addr, pSh2->rxBuf, readLen): the arguments are evaluated
\* before the call, so before the mutex is taken
halTask_Args ==
    /\ pc[HalTask] = "W_addr"
    /\ xfer' = [xfer EXCEPT ![HalTask] =
                   [dir |-> "rx", addr |-> sh2[event.unit].addr,
                    len |-> readLen, pData |-> event.unit]]
    /\ outcome' = [outcome EXCEPT ![HalTask] = "none"]
    /\ pc' = [pc EXCEPT ![HalTask] = "X_take"]
    /\ UNCHANGED <<active, i2cMutex, i2cBlockSem, i2cStatus, i2cResetNeeded, evtQueue,
                   sh2, gpio, bus, tick, status, call, ret, event, readLen,
                   loaded, delivered>>

\* a read that failed tried again instead of decoded
halTask_Cargo_Retry ==
    /\ pc[HalTask] = "W_cargo"
    /\ IF status[HalTask] = SH2_ERR_IO
       THEN /\ pc' = [pc EXCEPT ![HalTask] = "W_addr"]
            /\ UNCHANGED sh2
       ELSE /\ sh2' = [sh2 EXCEPT ![event.unit].rxRemaining =
                          NextRemaining(CargoLen(sh2[event.unit].rxBuf), readLen)]
            /\ pc' = [pc EXCEPT ![HalTask] = "W_load"]
    /\ xfer' = [xfer EXCEPT ![HalTask] = NoXfer]
    /\ status' = [status EXCEPT ![HalTask] = SH2_OK]
    /\ outcome' = [outcome EXCEPT ![HalTask] = "none"]
    /\ UNCHANGED <<active, i2cMutex, i2cBlockSem, i2cStatus, i2cResetNeeded,
                   evtQueue, gpio, bus, tick, call, ret, event, readLen, loaded,
                   delivered>>

\* cargoLen from the header in rxBuf, then rxRemaining; the status returned by
\* i2cBlockingRx is not looked at
halTask_Cargo ==
    /\ pc[HalTask] = "W_cargo"
    /\ sh2' = [sh2 EXCEPT ![event.unit].rxRemaining =
                   NextRemaining(CargoLen(sh2[event.unit].rxBuf), readLen)]
    /\ pc' = [pc EXCEPT ![HalTask] = "W_load"]
    /\ xfer' = [xfer EXCEPT ![HalTask] = NoXfer]
    /\ status' = [status EXCEPT ![HalTask] = SH2_OK]
    /\ outcome' = [outcome EXCEPT ![HalTask] = "none"]
    /\ UNCHANGED <<active, i2cMutex, i2cBlockSem, i2cStatus, i2cResetNeeded,
                   evtQueue, gpio, bus, tick, call, ret, event, readLen, loaded,
                   delivered>>

\* pSh2->onRx(pSh2->onRxCookie, ...): the callee and the first argument are two
\* loads from sh2[unit], in an order the compiler picks
halTask_LoadFn ==
    /\ pc[HalTask] \in {"W_load", "W_load_fn"}
    /\ loaded' = [loaded EXCEPT !.onRx = sh2[event.unit].onRx]
    /\ pc' = [pc EXCEPT ![HalTask] =
                 IF pc[HalTask] = "W_load" THEN "W_load_ck" ELSE "W_call"]
    /\ UNCHANGED <<active, i2cMutex, i2cBlockSem, i2cStatus, i2cResetNeeded, evtQueue,
                   sh2, gpio, bus, tick, xfer, status, call, ret, event,
                   readLen, outcome, delivered>>

halTask_LoadCookie ==
    /\ pc[HalTask] \in {"W_load", "W_load_ck"}
    /\ loaded' = [loaded EXCEPT !.cookie = sh2[event.unit].onRxCookie]
    /\ pc' = [pc EXCEPT ![HalTask] =
                 IF pc[HalTask] = "W_load" THEN "W_load_fn" ELSE "W_call"]
    /\ UNCHANGED <<active, i2cMutex, i2cBlockSem, i2cStatus, i2cResetNeeded, evtQueue,
                   sh2, gpio, bus, tick, xfer, status, call, ret, event,
                   readLen, outcome, delivered>>

\* event.t_ms * 1000 in uint32_t, as <<high 16 bits, low 16 bits>>
Microseconds(t_ms) ==
    LET lo == (t_ms % 65536) * 1000
        hi == (t_ms \div 65536) * 1000 + (lo \div 65536)
    IN  <<hi % 65536, lo % 65536>>

\* the call itself.  A call through a null pointer is a branch to address 0
\* with the Thumb bit clear: the Cortex-M core of the STM32 takes a fault, and
\* halTask never comes back from it
halTask_Deliver ==
    /\ pc[HalTask] = "W_call"
    /\ IF loaded.onRx = NullFn
       THEN /\ pc' = [pc EXCEPT ![HalTask] = "W_fault"]
            /\ UNCHANGED <<active, delivered, event, readLen, loaded, xfer, outcome>>
       ELSE /\ delivered' = [onRx |-> loaded.onRx, cookie |-> loaded.cookie,
                             len |-> readLen, t_us |-> Microseconds(event.t_ms)]
            /\ pc' = [pc EXCEPT ![HalTask] = "W_return"]
            /\ UNCHANGED <<event, readLen, loaded, xfer, outcome>>
    /\ UNCHANGED <<active, i2cMutex, i2cBlockSem, i2cStatus, i2cResetNeeded, evtQueue,
                   sh2, gpio, bus, tick, status, call, ret>>

\* the callback returns; break; back to the head of the loop
halTask_Loop ==
    /\ pc[HalTask] = "W_return"
    /\ pc' = [pc EXCEPT ![HalTask] = "W_receive"]
    /\ delivered' = NoDelivery
    /\ event' = NoEvent
    /\ readLen' = 0
    /\ loaded' = NoLoad
    /\ UNCHANGED <<active, i2cMutex, i2cBlockSem, i2cStatus, i2cResetNeeded,
                   evtQueue, sh2, gpio, bus, tick, xfer, status, call, ret,
                   outcome>>

\* ------------------------------------------------------------ sh2_hal_reset
ResetCall(unit, dfuMode, reg) ==
    [op |-> "reset", unit |-> unit, dfuMode |-> dfuMode, onRx |-> reg.onRx,
     cookie |-> reg.cookie, len |-> 0]

\* the unit check off by one: unit > SH2_UNITS
sh2_hal_reset_OffByOne(c, unit, dfuMode, reg) ==
    /\ pc[c] = "idle"
    /\ call' = [call EXCEPT ![c] = ResetCall(unit, dfuMode, reg)]
    /\ IF unit > SH2_UNITS
       THEN /\ ret' = [ret EXCEPT ![c] = SH2_ERR_BAD_PARAM]
            /\ pc' = [pc EXCEPT ![c] = "done"]
       ELSE /\ pc' = [pc EXCEPT ![c] = "reset_take"]
            /\ UNCHANGED ret
    /\ UNCHANGED <<active, i2cMutex, i2cBlockSem, i2cStatus, i2cResetNeeded,
                   evtQueue, sh2, gpio, bus, tick, xfer, status, event, readLen,
                   loaded, outcome, delivered>>

\* if (unit >= SH2_UNITS) return SH2_ERR_BAD_PARAM;
sh2_hal_reset(c, unit, dfuMode, reg) ==
    /\ pc[c] = "idle"
    /\ call' = [call EXCEPT ![c] = ResetCall(unit, dfuMode, reg)]
    /\ IF unit >= SH2_UNITS
       THEN /\ ret' = [ret EXCEPT ![c] = SH2_ERR_BAD_PARAM]
            /\ pc' = [pc EXCEPT ![c] = "done"]
       ELSE /\ pc' = [pc EXCEPT ![c] = "reset_take"]
            /\ UNCHANGED ret
    /\ UNCHANGED <<active, i2cMutex, i2cBlockSem, i2cStatus, i2cResetNeeded, evtQueue,
                   sh2, gpio, bus, tick, xfer, status, event, readLen, loaded,
                   outcome, delivered>>

\* sh2_hal_reset going on without waiting for the mutex
reset_Take_NoWait(c) ==
    /\ pc[c] = "reset_take"
    /\ i2cMutex' = c
    /\ pc' = [pc EXCEPT ![c] = "reset_cookie"]
    /\ UNCHANGED <<active, i2cBlockSem, i2cStatus, i2cResetNeeded, evtQueue, sh2,
                   gpio, bus, tick, xfer, status, call, ret, event, readLen,
                   loaded, outcome, delivered>>

\* xSemaphoreTake(i2cMutex, portMAX_DELAY);
reset_Take(c) ==
    /\ pc[c] = "reset_take"
    /\ i2cMutex = NoTask
    /\ i2cMutex' = c
    /\ pc' = [pc EXCEPT ![c] = "reset_cookie"]
    /\ UNCHANGED <<active, i2cBlockSem, i2cStatus, i2cResetNeeded, evtQueue, sh2, gpio,
                   bus, tick, xfer, status, call, ret, event, readLen, loaded,
                   outcome, delivered>>

\* sh2[unit].onRxCookie = cookie;
reset_StoreCookie(c) ==
    /\ pc[c] = "reset_cookie"
    /\ sh2' = [sh2 EXCEPT ![call[c].unit].onRxCookie = call[c].cookie]
    /\ pc' = [pc EXCEPT ![c] = "reset_onRx"]
    /\ UNCHANGED <<active, i2cMutex, i2cBlockSem, i2cStatus, i2cResetNeeded, evtQueue,
                   gpio, bus, tick, xfer, status, call, ret, event, readLen,
                   loaded, outcome, delivered>>

\* sh2[unit].onRx = onRx;
reset_StoreOnRx(c) ==
    /\ pc[c] = "reset_onRx"
    /\ sh2' = [sh2 EXCEPT ![call[c].unit].onRx = call[c].onRx]
    /\ pc' = [pc EXCEPT ![c] = "reset_addr"]
    /\ UNCHANGED <<active, i2cMutex, i2cBlockSem, i2cStatus, i2cResetNeeded, evtQueue,
                   gpio, bus, tick, xfer, status, call, ret, event, readLen,
                   loaded, outcome, delivered>>

\* the two arms of the conditional exchanged
reset_StoreAddr_Inverted(c) ==
    /\ pc[c] = "reset_addr"
    /\ sh2' = [sh2 EXCEPT ![call[c].unit].addr =
                   ResetAddr(call[c].unit, ~call[c].dfuMode)]
    /\ pc' = [pc EXCEPT ![c] = "reset_rstn0"]
    /\ UNCHANGED <<active, i2cMutex, i2cBlockSem, i2cStatus, i2cResetNeeded,
                   evtQueue, gpio, bus, tick, xfer, status, call, ret, event,
                   readLen, loaded, outcome, delivered>>

\* sh2[unit].addr = dfuMode ? ADDR_DFU_n<<1 : ADDR_SH2_n<<1;
reset_StoreAddr(c) ==
    /\ pc[c] = "reset_addr"
    /\ sh2' = [sh2 EXCEPT ![call[c].unit].addr =
                   ResetAddr(call[c].unit, call[c].dfuMode)]
    /\ pc' = [pc EXCEPT ![c] = "reset_rstn0"]
    /\ UNCHANGED <<active, i2cMutex, i2cBlockSem, i2cStatus, i2cResetNeeded, evtQueue,
                   gpio, bus, tick, xfer, status, call, ret, event, readLen,
                   loaded, outcome, delivered>>

\* rstn0 / bootn0: HAL_GPIO_WritePin on the pin of unit 0
rstn0(state) == gpio' = [gpio EXCEPT !.rstn = state]
bootn0(state) == gpio' = [gpio EXCEPT !.bootn = state]

\* sh2[unit].rstn(0);
reset_Assert(c) ==
    /\ pc[c] = "reset_rstn0"
    /\ rstn0(FALSE)
    /\ pc' = [pc EXCEPT ![c] = "reset_bootn"]
    /\ UNCHANGED <<active, i2cMutex, i2cBlockSem, i2cStatus, i2cResetNeeded, evtQueue,
                   sh2, bus, tick, xfer, status, call, ret, event, readLen,
                   loaded, outcome, delivered>>

\* BOOTN driven with the polarity exchanged
reset_Bootn_Inverted(c) ==
    /\ pc[c] = "reset_bootn"
    /\ bootn0(call[c].dfuMode)
    /\ pc' = [pc EXCEPT ![c] = "reset_delay"]
    /\ UNCHANGED <<active, i2cMutex, i2cBlockSem, i2cStatus, i2cResetNeeded,
                   evtQueue, sh2, bus, tick, xfer, status, call, ret, event,
                   readLen, loaded, outcome, delivered>>

\* sh2[unit].bootn(dfuMode ? 0 : 1);
reset_Bootn(c) ==
    /\ pc[c] = "reset_bootn"
    /\ bootn0(~call[c].dfuMode)
    /\ pc' = [pc EXCEPT ![c] = "reset_delay"]
    /\ UNCHANGED <<active, i2cMutex, i2cBlockSem, i2cStatus, i2cResetNeeded, evtQueue,
                   sh2, bus, tick, xfer, status, call, ret, event, readLen,
                   loaded, outcome, delivered>>

\* vTaskDelay(RESET_DELAY); sh2[unit].rstn(1);
reset_Deassert(c) ==
    /\ pc[c] = "reset_delay"
    /\ rstn0(TRUE)
    /\ pc' = [pc EXCEPT ![c] = IF call[c].dfuMode THEN "reset_dfudelay"
                                ELSE "reset_flag"]
    /\ UNCHANGED <<active, i2cMutex, i2cBlockSem, i2cStatus, i2cResetNeeded, evtQueue,
                   sh2, bus, tick, xfer, status, call, ret, event, readLen,
                   loaded, outcome, delivered>>

\* if (dfuMode) vTaskDelay(DFU_BOOT_DELAY);
reset_DfuDelay(c) ==
    /\ pc[c] = "reset_dfudelay"
    /\ pc' = [pc EXCEPT ![c] = "reset_flag"]
    /\ UNCHANGED <<active, i2cMutex, i2cBlockSem, i2cStatus, i2cResetNeeded, evtQueue,
                   sh2, gpio, bus, tick, xfer, status, call, ret, event,
                   readLen, loaded, outcome, delivered>>

\* a reset that also forgets what the hub still owes
reset_Mark_ClearsRemainder(c) ==
    /\ pc[c] = "reset_flag"
    /\ i2cResetNeeded' = TRUE
    /\ sh2' = [sh2 EXCEPT ![call[c].unit].rxRemaining = 0]
    /\ pc' = [pc EXCEPT ![c] = "reset_give"]
    /\ UNCHANGED <<active, i2cMutex, i2cBlockSem, i2cStatus, evtQueue, gpio, bus,
                   tick, xfer, status, call, ret, event, readLen, loaded,
                   outcome, delivered>>

\* i2cResetNeeded = true;
reset_Mark(c) ==
    /\ pc[c] = "reset_flag"
    /\ i2cResetNeeded' = TRUE
    /\ pc' = [pc EXCEPT ![c] = "reset_give"]
    /\ UNCHANGED <<active, i2cMutex, i2cBlockSem, i2cStatus, evtQueue, sh2, gpio, bus,
                   tick, xfer, status, call, ret, event, readLen, loaded,
                   outcome, delivered>>

\* xSemaphoreGive(i2cMutex); return SH2_OK;
reset_Give(c) ==
    /\ pc[c] = "reset_give"
    /\ i2cMutex' = NoTask
    /\ ret' = [ret EXCEPT ![c] = SH2_OK]
    /\ pc' = [pc EXCEPT ![c] = "done"]
    /\ UNCHANGED <<active, i2cBlockSem, i2cStatus, i2cResetNeeded, evtQueue, sh2, gpio,
                   bus, tick, xfer, status, call, event, readLen, loaded,
                   outcome, delivered>>

\* ------------------------------------------------- sh2_hal_tx / sh2_hal_rx
XferCall(op, unit, len) ==
    [op |-> op, unit |-> unit, dfuMode |-> FALSE, onRx |-> 0, cookie |-> 0,
     len |-> len]

\* the test for len == 0 left out
hal_Xfer_AnyLen(c, op, unit, len) ==
    /\ pc[c] = "idle"
    /\ call' = [call EXCEPT ![c] = XferCall(op, unit, len)]
    /\ IF unit >= SH2_UNITS
       THEN /\ ret' = [ret EXCEPT ![c] = SH2_ERR_BAD_PARAM]
            /\ pc' = [pc EXCEPT ![c] = "done"]
            /\ UNCHANGED xfer
       ELSE /\ xfer' = [xfer EXCEPT ![c] =
                           [dir |-> op, addr |-> sh2[unit].addr, len |-> len,
                            pData |-> UserBuf]]
            /\ pc' = [pc EXCEPT ![c] = "X_take"]
            /\ UNCHANGED ret
    /\ UNCHANGED <<active, i2cMutex, i2cBlockSem, i2cStatus, i2cResetNeeded,
                   evtQueue, sh2, gpio, bus, tick, status, event, readLen, loaded,
                   outcome, delivered>>

\* the unit check, the len == 0 check, and the evaluation of sh2[unit].addr as
\* the first argument of i2cBlockingTx / i2cBlockingRx
hal_Xfer(c, op, unit, len) ==
    /\ pc[c] = "idle"
    /\ call' = [call EXCEPT ![c] = XferCall(op, unit, len)]
    /\ IF unit >= SH2_UNITS
       THEN /\ ret' = [ret EXCEPT ![c] = SH2_ERR_BAD_PARAM]
            /\ pc' = [pc EXCEPT ![c] = "done"]
            /\ UNCHANGED xfer
       ELSE IF len = 0
       THEN /\ ret' = [ret EXCEPT ![c] = SH2_OK]
            /\ pc' = [pc EXCEPT ![c] = "done"]
            /\ UNCHANGED xfer
       ELSE /\ xfer' = [xfer EXCEPT ![c] =
                           [dir |-> op, addr |-> sh2[unit].addr, len |-> len,
                            pData |-> UserBuf]]
            /\ pc' = [pc EXCEPT ![c] = "X_take"]
            /\ UNCHANGED ret
    /\ UNCHANGED <<active, i2cMutex, i2cBlockSem, i2cStatus, i2cResetNeeded, evtQueue,
                   sh2, gpio, bus, tick, status, event, readLen, loaded,
                   outcome, delivered>>

sh2_hal_tx(c, unit, len) == hal_Xfer(c, "tx", unit, len)

sh2_hal_rx(c, unit, len) == hal_Xfer(c, "rx", unit, len)

\* -------------------------------------------- sh2_hal_block / sh2_hal_unblock
GateCall(op, unit) ==
    [op |-> op, unit |-> unit, dfuMode |-> FALSE, onRx |-> 0, cookie |-> 0,
     len |-> 0]

sh2_hal_block(c, unit) ==
    /\ pc[c] = "idle"
    /\ call' = [call EXCEPT ![c] = GateCall("block", unit)]
    /\ IF unit >= SH2_UNITS
       THEN /\ ret' = [ret EXCEPT ![c] = SH2_ERR_BAD_PARAM]
            /\ pc' = [pc EXCEPT ![c] = "done"]
       ELSE /\ pc' = [pc EXCEPT ![c] = "block_take"]
            /\ UNCHANGED ret
    /\ UNCHANGED <<active, i2cMutex, i2cBlockSem, i2cStatus, i2cResetNeeded, evtQueue,
                   sh2, gpio, bus, tick, xfer, status, event, readLen, loaded,
                   outcome, delivered>>

\* xSemaphoreTake(pSh2->blockSem, portMAX_DELAY); return SH2_OK;
block_Take(c) ==
    /\ pc[c] = "block_take"
    /\ sh2[call[c].unit].blockSem = 1
    /\ sh2' = [sh2 EXCEPT ![call[c].unit].blockSem = 0]
    /\ ret' = [ret EXCEPT ![c] = SH2_OK]
    /\ pc' = [pc EXCEPT ![c] = "done"]
    /\ UNCHANGED <<active, i2cMutex, i2cBlockSem, i2cStatus, i2cResetNeeded, evtQueue,
                   gpio, bus, tick, xfer, status, call, event, readLen, loaded,
                   outcome, delivered>>

\* the gate as a counting semaphore: every give is kept
sh2_hal_unblock_Counting(c, unit) ==
    /\ pc[c] = "idle"
    /\ call' = [call EXCEPT ![c] = GateCall("unblock", unit)]
    /\ IF unit >= SH2_UNITS
       THEN /\ ret' = [ret EXCEPT ![c] = SH2_ERR_BAD_PARAM]
            /\ UNCHANGED sh2
       ELSE /\ sh2' = [sh2 EXCEPT ![unit].blockSem = @ + 1]
            /\ ret' = [ret EXCEPT ![c] = SH2_OK]
    /\ pc' = [pc EXCEPT ![c] = "done"]
    /\ UNCHANGED <<active, i2cMutex, i2cBlockSem, i2cStatus, i2cResetNeeded, evtQueue,
                   gpio, bus, tick, xfer, status, event, readLen, loaded,
                   outcome, delivered>>

\* xSemaphoreGive(pSh2->blockSem); return SH2_OK;
sh2_hal_unblock(c, unit) ==
    /\ pc[c] = "idle"
    /\ call' = [call EXCEPT ![c] = GateCall("unblock", unit)]
    /\ IF unit >= SH2_UNITS
       THEN /\ ret' = [ret EXCEPT ![c] = SH2_ERR_BAD_PARAM]
            /\ UNCHANGED sh2
       ELSE /\ sh2' = [sh2 EXCEPT ![unit].blockSem = 1]
            /\ ret' = [ret EXCEPT ![c] = SH2_OK]
    /\ pc' = [pc EXCEPT ![c] = "done"]
    /\ UNCHANGED <<active, i2cMutex, i2cBlockSem, i2cStatus, i2cResetNeeded, evtQueue,
                   gpio, bus, tick, xfer, status, event, readLen, loaded,
                   outcome, delivered>>

\* the caller is back in its own code, ready for its next call
Return(c) ==
    /\ pc[c] = "done"
    /\ pc' = [pc EXCEPT ![c] = "idle"]
    /\ call' = [call EXCEPT ![c] = NoCall]
    /\ ret' = [ret EXCEPT ![c] = "none"]
    /\ xfer' = [xfer EXCEPT ![c] = NoXfer]
    /\ status' = [status EXCEPT ![c] = SH2_OK]
    /\ outcome' = [outcome EXCEPT ![c] = "none"]
    /\ UNCHANGED <<active, i2cMutex, i2cBlockSem, i2cStatus, i2cResetNeeded, evtQueue,
                   sh2, gpio, bus, tick, event, readLen, loaded, delivered>>

\* ------------------------------------------------------------ specification
\* An action of the program leaves the hub's message and the history alone
\* unless the specification it runs in says otherwise.
Quiet == UNCHANGED <<dev, hist>>

ResetPcs == {"reset_take", "reset_cookie", "reset_onRx", "reset_addr",
             "reset_rstn0", "reset_bootn", "reset_delay", "reset_dfudelay",
             "reset_flag", "reset_give"}
XferPcs == {"X_take", "X_reset", "X_issue", "X_wait", "X_status", "X_give"}

\* the steps of halTask, outside i2cBlockingRx
Worker ==
    \/ (halTask_Receive /\ Quiet)
    \/ (halTask_Check /\ Quiet)
    \/ (halTask_Args /\ Quiet)
    \/ (halTask_Cargo /\ Quiet)
    \/ (halTask_LoadFn /\ Quiet)
    \/ (halTask_LoadCookie /\ Quiet)
    \/ (halTask_Deliver /\ Quiet)
    \/ (halTask_Loop /\ Quiet)

\* the steps of i2cBlockingRx / i2cBlockingTx, of any running task
Transaction ==
    \/ \E t \in active : i2cBlocking_Take(t) /\ Quiet
    \/ \E t \in active : i2cBlocking_Reset(t) /\ Quiet
    \/ \E t \in active : \E rc \in {0, 1} : i2cBlocking_Issue(t, rc) /\ Quiet
    \/ \E t \in active : i2cBlocking_Block(t) /\ Quiet
    \/ \E t \in active : i2cBlocking_Status(t) /\ Quiet
    \/ \E t \in active : i2cBlocking_Give(t) /\ Quiet

\* the history of a reset call: it overlaps every tx/rx call in progress, and
\* when it returns its mode is the unit's mode
NoteResetCall(unit) ==
    IF unit \in Units
    THEN hist' = [hist EXCEPT !.overlap =
                     [c \in Callers |-> hist.overlap[c] \/ pc[c] \in XferPcs]]
    ELSE UNCHANGED hist

NoteResetReturn(c) ==
    hist' = [hist EXCEPT !.mode[call[c].unit] =
                IF call[c].dfuMode THEN "dfu" ELSE "sh2"]

NoteXferCall(c) ==
    hist' = [hist EXCEPT !.overlap[c] = \E d \in Callers : pc[d] \in ResetPcs]

NoteReturn(c) == hist' = [hist EXCEPT !.overlap[c] = FALSE]

\* the calls of the caller tasks
Calls ==
    \/ \E c \in active \cap Callers : \E u \in UnitArgs : \E d \in BOOLEAN :
          \E r \in Registrations :
             sh2_hal_reset(c, u, d, r) /\ NoteResetCall(u) /\ UNCHANGED dev
    \/ \E c \in active \cap Callers : reset_Take(c) /\ Quiet
    \/ \E c \in active \cap Callers : reset_StoreCookie(c) /\ Quiet
    \/ \E c \in active \cap Callers : reset_StoreOnRx(c) /\ Quiet
    \/ \E c \in active \cap Callers : reset_StoreAddr(c) /\ Quiet
    \/ \E c \in active \cap Callers : reset_Assert(c) /\ Quiet
    \/ \E c \in active \cap Callers : reset_Bootn(c) /\ Quiet
    \/ \E c \in active \cap Callers : reset_Deassert(c) /\ Quiet
    \/ \E c \in active \cap Callers : reset_DfuDelay(c) /\ Quiet
    \/ \E c \in active \cap Callers : reset_Mark(c) /\ Quiet
    \/ \E c \in active \cap Callers :
          reset_Give(c) /\ NoteResetReturn(c) /\ UNCHANGED dev
    \/ \E c \in active \cap Callers : \E u \in UnitArgs : \E n \in {0, CallerLen} :
          sh2_hal_tx(c, u, n) /\ NoteXferCall(c) /\ UNCHANGED dev
    \/ \E c \in active \cap Callers : \E u \in UnitArgs : \E n \in {0, CallerLen} :
          sh2_hal_rx(c, u, n) /\ NoteXferCall(c) /\ UNCHANGED dev
    \/ \E c \in active \cap Callers : \E u \in UnitArgs :
          sh2_hal_block(c, u) /\ Quiet
    \/ \E c \in active \cap Callers : block_Take(c) /\ Quiet
    \/ \E c \in active \cap Callers : \E u \in UnitArgs :
          sh2_hal_unblock(c, u) /\ Quiet
    \/ \E c \in active \cap Callers : Return(c) /\ NoteReturn(c) /\ UNCHANGED dev

\* headers (rxBuf[0], rxBuf[1]) the hub answers with: cargo length 0, and 20
\* with the continuation bit set
Headers == {<<0, 0>>, <<20, 128>>}

\* the driver ends a transfer, with any of the headers hs in a receive buffer
Driver(hs) ==
    \/ \E x \in bus : \E h \in hs : Driver_Complete(x, h) /\ Quiet
    \/ \E x \in bus : \E p \in BOOLEAN : \E h \in hs :
          Driver_Error(x, p, h) /\ Quiet

\* an interrupt of the hub while fewer than MaxPending events wait
Interrupt ==
    /\ HalTask \in active
    /\ Len(evtQueue) < MaxPending
    /\ HAL_GPIO_EXTI_Callback
    /\ Quiet

Next ==
    \/ Interrupt
    \/ Driver(Headers)
    \/ Worker
    \/ Transaction
    \/ Calls

Spec == Init /\ [][Next]_vars

\* ------------------------------------------- the read pipeline on its own
\* The state once sh2_hal_init() and then sh2_hal_reset(0, false, 1, 1) have
\* returned; halTask is the only task that runs from here.
InitAfterReset ==
    /\ i2cMutex = NoTask
    /\ i2cBlockSem = 0
    /\ i2cStatus = SH2_OK
    /\ i2cResetNeeded = TRUE
    /\ evtQueue = <<>>
    /\ sh2 = [u \in Units |->
                 [Sh2Zero EXCEPT !.onRx = 1, !.onRxCookie = 1,
                                 !.addr = ResetAddr(u, FALSE)]]
    /\ gpio = [rstn |-> TRUE, bootn |-> TRUE]
    /\ bus = {}
    /\ tick = 0
    /\ pc = [t \in Tasks |-> IF t = HalTask THEN "W_receive" ELSE "idle"]
    /\ xfer = [t \in Tasks |-> NoXfer]
    /\ status = [t \in Tasks |-> SH2_OK]
    /\ call = [c \in Callers |-> NoCall]
    /\ ret = [c \in Callers |-> "none"]
    /\ event = NoEvent
    /\ readLen = 0
    /\ loaded = NoLoad
    /\ outcome = [t \in Tasks |-> "none"]
    /\ delivered = NoDelivery
    /\ active = {HalTask}
    /\ hist = [HistInit EXCEPT !.mode = [u \in Units |-> "sh2"]]

\* the same, with a hub that has nothing to send of its own
InitIdle == InitAfterReset /\ dev = DevIdle

\* the two bytes of a 16-bit length field, low byte first
Bytes(v) == <<v % 256, v \div 256>>

\* ---- the read-length state machine, for headers of many lengths
LenHeaders ==
    {Bytes(v) : v \in {0, 4, 5, SH2_HAL_MAX_TRANSFER - 4, SH2_HAL_MAX_TRANSFER,
                       SH2_HAL_MAX_TRANSFER + 1, 3 * SH2_HAL_MAX_TRANSFER, 32767,
                       32768 + 20, 65535}}

\* halTask, remembering the length of the read it decodes
WorkerLen ==
    \/ (halTask_Receive /\ Quiet)
    \/ (halTask_Check /\ Quiet)
    \/ (halTask_Args /\ Quiet)
    \/ (halTask_Cargo /\ hist' = [hist EXCEPT !.lastLen = readLen]
           /\ UNCHANGED dev)
    \/ (halTask_LoadFn /\ Quiet)
    \/ (halTask_LoadCookie /\ Quiet)
    \/ (halTask_Deliver /\ Quiet)
    \/ (halTask_Loop /\ Quiet)

NextLen ==
    \/ Interrupt
    \/ Driver(LenHeaders)
    \/ WorkerLen
    \/ Transaction

SpecLen == InitIdle /\ [][NextLen]_vars

\* ---- a hub that sends one message in chunks
\* the lengths the first header declares
ChunkLengths == {0, SH2_HAL_MAX_TRANSFER - 4, SH2_HAL_MAX_TRANSFER,
                 3 * SH2_HAL_MAX_TRANSFER}

\* the header of the hub's next answer
DevHeader(d) == Bytes(d.owed + (IF d.cont THEN 32768 ELSE 0))

\* the hub after it has answered a read of len bytes: what it could not send
\* it owes, behind a new header, and announces with an interrupt
DevAfterRead(d, len) ==
    IF d.owed > len
    THEN [d EXCEPT !.owed = (d.owed - len) + SHTP_HEADER_LEN, !.cont = TRUE,
                   !.irq = "raise", !.chunks = d.chunks + 1]
    ELSE [d EXCEPT !.owed = 0, !.cont = FALSE, !.irq = "idle",
                   !.chunks = d.chunks + 1]

\* the hub pulls INTN: one interrupt for every chunk
Dev_Interrupt ==
    /\ dev.irq = "raise"
    /\ HAL_GPIO_EXTI_Callback
    /\ dev' = [dev EXCEPT !.irq = "wait"]
    /\ UNCHANGED hist

\* the hub answers the read of halTask
Dev_Answer ==
    \E x \in bus :
       /\ Driver_Complete(x, DevHeader(dev))
       /\ dev' = DevAfterRead(dev, x.len)
       /\ UNCHANGED hist

\* i2cBlockingRx with a driver that accepts every transfer
TransactionAccepted ==
    \/ \E t \in active : i2cBlocking_Take(t) /\ Quiet
    \/ \E t \in active : i2cBlocking_Reset(t) /\ Quiet
    \/ \E t \in active : i2cBlocking_Issue(t, 0) /\ Quiet
    \/ \E t \in active : i2cBlocking_Block(t) /\ Quiet
    \/ \E t \in active : i2cBlocking_Status(t) /\ Quiet
    \/ \E t \in active : i2cBlocking_Give(t) /\ Quiet

NextChunks ==
    \/ (Tick /\ Quiet)
    \/ Dev_Interrupt
    \/ Dev_Answer
    \/ Worker
    \/ TransactionAccepted

InitChunks ==
    /\ InitAfterReset
    /\ \E n \in ChunkLengths :
          dev = [total |-> n, owed |-> n, cont |-> FALSE, irq |-> "raise",
                 chunks |-> 0]

\* the scheduler runs halTask and the hardware ends every transfer
SpecChunks == InitChunks /\ [][NextChunks]_vars /\ WF_vars(NextChunks)

\* ---- the event queue under any number of waiting events
NextQueue ==
    \/ (Tick /\ Quiet)
    \/ (HAL_GPIO_EXTI_Callback /\ Quiet)
    \/ Driver(Headers)
    \/ Worker
    \/ Transaction

SpecQueue == InitIdle /\ [][NextQueue]_vars

\* ---- the event queue, counting interrupts and dequeued events
\* an interrupt, counted; those before the first dequeue make the burst
Interrupt_Counted ==
    /\ hist.posted < MaxPosts
    /\ HAL_GPIO_EXTI_Callback
    /\ hist' = [hist EXCEPT !.posted = hist.posted + 1,
                            !.burst = IF hist.consumed = 0 THEN hist.burst + 1
                                      ELSE hist.burst]
    /\ UNCHANGED dev

WorkerCounted ==
    \/ (halTask_Receive /\ hist' = [hist EXCEPT !.consumed = hist.consumed + 1]
           /\ UNCHANGED dev)
    \/ (halTask_Check /\ Quiet)
    \/ (halTask_Args /\ Quiet)
    \/ (halTask_Cargo /\ Quiet)
    \/ (halTask_LoadFn /\ Quiet)
    \/ (halTask_LoadCookie /\ Quiet)
    \/ (halTask_Deliver /\ Quiet)
    \/ (halTask_Loop /\ Quiet)

NextBurst ==
    \/ Interrupt_Counted
    \/ Driver(Headers)
    \/ WorkerCounted
    \/ Transaction

SpecBurst == InitIdle /\ [][NextBurst]_vars

\* ---- halTask and the events it lets go
\* The state once sh2_hal_init() and then sh2_hal_reset(0, dfuMode, reg.onRx,
\* reg.cookie) have returned, with halTask the only task that runs from here.
AfterReset(reg, dfuMode) ==
    /\ i2cMutex = NoTask
    /\ i2cBlockSem = 0
    /\ i2cStatus = SH2_OK
    /\ i2cResetNeeded = TRUE
    /\ evtQueue = <<>>
    /\ sh2 = [u \in Units |->
                 [Sh2Zero EXCEPT !.onRx = reg.onRx, !.onRxCookie = reg.cookie,
                                 !.addr = ResetAddr(u, dfuMode)]]
    /\ gpio = [rstn |-> TRUE, bootn |-> ~dfuMode]
    /\ bus = {}
    /\ tick = 0
    /\ pc = [t \in Tasks |-> IF t = HalTask THEN "W_receive" ELSE "idle"]
    /\ xfer = [t \in Tasks |-> NoXfer]
    /\ status = [t \in Tasks |-> SH2_OK]
    /\ call = [c \in Callers |-> NoCall]
    /\ ret = [c \in Callers |-> "none"]
    /\ event = NoEvent
    /\ readLen = 0
    /\ loaded = NoLoad
    /\ outcome = [t \in Tasks |-> "none"]
    /\ delivered = NoDelivery
    /\ active = {HalTask}
    /\ hist = [HistInit EXCEPT !.mode = [u \in Units |->
                                            IF dfuMode THEN "dfu" ELSE "sh2"]]

\* events as Event_t can hold them: the one the interrupt handler builds, one
\* of the first unit past the last, one of a kind the switch does not know
EVT_OTHER == "EVT_OTHER"
DropEvents == {[t_ms |-> 0, id |-> EVT_INTN, unit |-> 0],
               [t_ms |-> 0, id |-> EVT_INTN, unit |-> SH2_UNITS],
               [t_ms |-> 0, id |-> EVT_OTHER, unit |-> 0]}

\* an event arrives in evtQueue while fewer than MaxPending wait
PostEvent(e) ==
    /\ Len(evtQueue) < MaxPending
    /\ evtQueue' = xQueueSendFromISR(evtQueue, e)
    /\ UNCHANGED <<active, i2cMutex, i2cBlockSem, i2cStatus, i2cResetNeeded, sh2,
                   gpio, bus, tick, pc, xfer, status, call, ret, event, readLen,
                   loaded, outcome, delivered>>

\* halTask, remembering why it dropped an event
WorkerDrop ==
    \/ (halTask_Receive /\ UNCHANGED dev
           /\ hist' = [hist EXCEPT !.drop =
                          IF pc'[HalTask] = "W_receive" THEN "unit" ELSE "none"])
    \/ (halTask_Check /\ UNCHANGED dev
           /\ hist' = [hist EXCEPT !.drop =
                          IF pc'[HalTask] # "W_receive" THEN "none"
                          ELSE IF event.id # EVT_INTN THEN "kind"
                          ELSE "callback"])
    \/ (halTask_Args /\ Quiet)
    \/ (halTask_Cargo /\ Quiet)
    \/ (halTask_LoadFn /\ Quiet)
    \/ (halTask_LoadCookie /\ Quiet)
    \/ (halTask_Deliver /\ Quiet)
    \/ (halTask_Loop /\ Quiet)

NextDrop ==
    \/ \E e \in DropEvents : PostEvent(e) /\ Quiet
    \/ Driver(Headers)
    \/ WorkerDrop
    \/ Transaction

InitDrop ==
    /\ \E reg \in {r \in Registrations : r.onRx \in {NullFn, 1}} :
          AfterReset(reg, FALSE)
    /\ dev = DevIdle

SpecDrop == InitDrop /\ [][NextDrop]_vars

\* ---- halTask next to a caller, with the scheduler and the hardware fair
\* halTask, remembering the status its read returned
WorkerNoted ==
    \/ (halTask_Receive /\ Quiet)
    \/ (halTask_Check /\ Quiet)
    \/ (halTask_Args /\ Quiet)
    \/ (halTask_Cargo /\ hist' = [hist EXCEPT !.lastStatus = status[HalTask]]
           /\ UNCHANGED dev)
    \/ (halTask_LoadFn /\ Quiet)
    \/ (halTask_LoadCookie /\ Quiet)
    \/ (halTask_Deliver /\ Quiet)
    \/ (halTask_Loop /\ Quiet)

\* a caller that resets unit 0, with a callback or none, and receives
CallsLive ==
    \/ \E c \in active \cap Callers :
          \E r \in {q \in Registrations : q.onRx \in {NullFn, 1}} :
             sh2_hal_reset(c, 0, FALSE, r) /\ NoteResetCall(0) /\ UNCHANGED dev
    \/ \E c \in active \cap Callers : reset_Take(c) /\ Quiet
    \/ \E c \in active \cap Callers : reset_StoreCookie(c) /\ Quiet
    \/ \E c \in active \cap Callers : reset_StoreOnRx(c) /\ Quiet
    \/ \E c \in active \cap Callers : reset_StoreAddr(c) /\ Quiet
    \/ \E c \in active \cap Callers : reset_Assert(c) /\ Quiet
    \/ \E c \in active \cap Callers : reset_Bootn(c) /\ Quiet
    \/ \E c \in active \cap Callers : reset_Deassert(c) /\ Quiet
    \/ \E c \in active \cap Callers : reset_Mark(c) /\ Quiet
    \/ \E c \in active \cap Callers :
          reset_Give(c) /\ NoteResetReturn(c) /\ UNCHANGED dev
    \/ \E c \in active \cap Callers :
          sh2_hal_rx(c, 0, CallerLen) /\ NoteXferCall(c) /\ UNCHANGED dev
    \/ \E c \in active \cap Callers : Return(c) /\ NoteReturn(c) /\ UNCHANGED dev

\* the header of every answer: 20 bytes, continued
LiveHeaders == {<<20, 128>>}

NextLive ==
    \/ Interrupt
    \/ Driver(LiveHeaders)
    \/ WorkerNoted
    \/ Transaction
    \/ CallsLive

InitLive ==
    /\ Init
    /\ active = {HalTask, "c1"}

\* what task t does inside i2cBlockingRx / i2cBlockingTx once it has the mutex
HolderSteps(t) ==
    \/ (i2cBlocking_Reset(t) /\ Quiet)
    \/ (\E rc \in {0, 1} : i2cBlocking_Issue(t, rc) /\ Quiet)
    \/ (i2cBlocking_Block(t) /\ Quiet)
    \/ (i2cBlocking_Status(t) /\ Quiet)
    \/ (i2cBlocking_Give(t) /\ Quiet)

\* what caller c does inside sh2_hal_reset once it has the mutex
ResetSteps(c) ==
    \/ (reset_StoreCookie(c) /\ Quiet)
    \/ (reset_StoreOnRx(c) /\ Quiet)
    \/ (reset_StoreAddr(c) /\ Quiet)
    \/ (reset_Assert(c) /\ Quiet)
    \/ (reset_Bootn(c) /\ Quiet)
    \/ (reset_Deassert(c) /\ Quiet)
    \/ (reset_Mark(c) /\ Quiet)
    \/ (reset_Give(c) /\ NoteResetReturn(c) /\ UNCHANGED dev)

\* the driver ends every transfer, halTask runs when it can, a task waiting
\* for the mutex gets it when it is free again and again, and a task holding
\* it runs; a caller need not call
Fairness ==
    /\ WF_vars(Driver(LiveHeaders))
    /\ WF_vars(WorkerNoted)
    /\ \A t \in Tasks : SF_vars(i2cBlocking_Take(t) /\ Quiet)
    /\ \A t \in Tasks : WF_vars(HolderSteps(t))
    /\ \A c \in Callers : WF_vars(ResetSteps(c))

SpecLive == InitLive /\ [][NextLive]_vars /\ Fairness

\* --------------------------------------- registrations and the events after
\* what a reset call registers
RegOf(c) == [onRx |-> call[c].onRx, cookie |-> call[c].cookie]

\* halTask with the history of the registration each event is dequeued under
WorkerReg ==
    \/ (halTask_Receive
           /\ hist' = [hist EXCEPT !.seen = hist.reg,
                                   !.since = {RegOf(c) : c \in
                                                 {d \in Callers : pc[d] \in ResetPcs}}]
           /\ UNCHANGED dev)
    \/ (halTask_Check
           /\ hist' = (IF pc'[HalTask] = "W_receive"
                       THEN [hist EXCEPT !.seen = {}, !.since = {}]
                       ELSE hist)
           /\ UNCHANGED dev)
    \/ (halTask_Args /\ Quiet)
    \/ (halTask_Cargo /\ Quiet)
    \/ (halTask_LoadFn /\ Quiet)
    \/ (halTask_LoadCookie /\ Quiet)
    \/ (halTask_Deliver /\ Quiet)
    \/ (halTask_Loop /\ hist' = [hist EXCEPT !.seen = {}, !.since = {}]
           /\ UNCHANGED dev)

\* a caller that resets unit 0 again and again, with any registration
CallsReg ==
    \/ \E c \in active \cap Callers : \E r \in Registrations :
          /\ sh2_hal_reset(c, 0, FALSE, r)
          /\ hist' = [hist EXCEPT !.since =
                         (IF pc[HalTask] = "W_receive" THEN {} ELSE @ \cup {r})]
          /\ UNCHANGED dev
    \/ \E c \in active \cap Callers : reset_Take(c) /\ Quiet
    \/ \E c \in active \cap Callers : reset_StoreCookie(c) /\ Quiet
    \/ \E c \in active \cap Callers : reset_StoreOnRx(c) /\ Quiet
    \/ \E c \in active \cap Callers : reset_StoreAddr(c) /\ Quiet
    \/ \E c \in active \cap Callers : reset_Assert(c) /\ Quiet
    \/ \E c \in active \cap Callers : reset_Bootn(c) /\ Quiet
    \/ \E c \in active \cap Callers : reset_Deassert(c) /\ Quiet
    \/ \E c \in active \cap Callers : reset_Mark(c) /\ Quiet
    \/ \E c \in active \cap Callers :
          /\ reset_Give(c)
          /\ hist' = [hist EXCEPT !.reg = {RegOf(c)}, !.mode[call[c].unit] = "sh2"]
          /\ UNCHANGED dev
    \/ \E c \in active \cap Callers : Return(c) /\ NoteReturn(c) /\ UNCHANGED dev

NextReg ==
    \/ Interrupt
    \/ Driver(LiveHeaders)
    \/ WorkerReg
    \/ Transaction
    \/ CallsReg

SpecReg == InitLive /\ [][NextReg]_vars

\* ------------------------------------------------- timestamps, late in a run
\* the last tick count whose microseconds fit uint32_t: 4294967 * 1000 < 2^32
LastExactTick == 4294967

\* the tick counts a run starts from, once sh2_hal_reset has returned
TickStarts == {0, LastExactTick}

\* as InitIdle, at either tick count
InitTime ==
    /\ i2cMutex = NoTask
    /\ i2cBlockSem = 0
    /\ i2cStatus = SH2_OK
    /\ i2cResetNeeded = TRUE
    /\ evtQueue = <<>>
    /\ sh2 = [u \in Units |->
                 [Sh2Zero EXCEPT !.onRx = 1, !.onRxCookie = 1,
                                 !.addr = ResetAddr(u, FALSE)]]
    /\ gpio = [rstn |-> TRUE, bootn |-> TRUE]
    /\ bus = {}
    /\ tick \in TickStarts
    /\ pc = [t \in Tasks |-> IF t = HalTask THEN "W_receive" ELSE "idle"]
    /\ xfer = [t \in Tasks |-> NoXfer]
    /\ status = [t \in Tasks |-> SH2_OK]
    /\ call = [c \in Callers |-> NoCall]
    /\ ret = [c \in Callers |-> "none"]
    /\ event = NoEvent
    /\ readLen = 0
    /\ loaded = NoLoad
    /\ outcome = [t \in Tasks |-> "none"]
    /\ delivered = NoDelivery
    /\ active = {HalTask}
    /\ hist = [HistInit EXCEPT !.mode = [u \in Units |-> "sh2"]]
    /\ dev = DevIdle

\* the tick interrupt, at most MaxTick times after either start
TickOn ==
    /\ \E t0 \in TickStarts : t0 <= tick /\ tick < t0 + MaxTick
    /\ tick' = tick + 1
    /\ UNCHANGED <<active, i2cMutex, i2cBlockSem, i2cStatus, i2cResetNeeded, evtQueue,
                   sh2, gpio, bus, pc, xfer, status, call, ret, event, readLen,
                   loaded, outcome, delivered>>

\* halTask, remembering the timestamp of the callback before
WorkerTime ==
    \/ (halTask_Receive /\ Quiet)
    \/ (halTask_Check /\ Quiet)
    \/ (halTask_Args /\ Quiet)
    \/ (halTask_Cargo /\ Quiet)
    \/ (halTask_LoadFn /\ Quiet)
    \/ (halTask_LoadCookie /\ Quiet)
    \/ (halTask_Deliver /\ Quiet)
    \/ (halTask_Loop /\ hist' = [hist EXCEPT !.stamp = delivered.t_us]
           /\ UNCHANGED dev)

NextTime ==
    \/ (TickOn /\ Quiet)
    \/ Interrupt
    \/ Driver(LiveHeaders)
    \/ WorkerTime
    \/ Transaction

SpecTime == InitTime /\ [][NextTime]_vars

\* ------------------------------------------------------------------ claims
\* C1: whatever the interleaving of reset, tx and rx calls and of the reads of
\* halTask, at most one bus transaction is in flight: none is issued between
\* the issue and the completion signal of another.
C1_OneTransactionInFlight == Cardinality(bus) <= 1

\* a transfer is in flight while another task waits for the mutex to start one
C1_Contention ==
    \E x \in bus : \E t \in Tasks : t # x.task /\ pc[t] = "X_take"

\* a task has just returned from i2cBlockingRx / i2cBlockingTx
Returned(t) == pc[t] = AfterXfer(t) /\ xfer[t] # NoXfer

\* C2: when i2cBlockingRx / i2cBlockingTx returns, by any of its three paths,
\* the caller no longer holds the bus mutex; the mutex is only ever held by a
\* task that is between its take and its give, so it is free for the next call.
C2_LockReleasedOnReturn ==
    /\ \A t \in Tasks : Returned(t) => i2cMutex # t
    /\ \A t \in Tasks :
          i2cMutex = t => pc[t] \in (XferPcs \cup ResetPcs) \ {"X_take", "reset_take"}
    /\ i2cMutex \in Tasks \cup {NoTask}

\* one caller is back from a refused transfer, the other from a failed one
C2_BothFailuresReturned ==
    \E c, d \in Callers :
       /\ Returned(c) /\ outcome[c] = "refused"
       /\ Returned(d) /\ outcome[d] = "error"
       /\ i2cMutex = NoTask

\* C3: a transaction returns SH2_ERR_IO exactly when the driver refused it (and
\* then it did not wait on the completion semaphore) or ended it through the
\* error handler, and SH2_OK exactly when the driver ended it through the Tx/Rx
\* completion handler.
C3_StatusMatchesOutcome ==
    /\ \A t \in Tasks : Returned(t) =>
          /\ outcome[t] \in {"refused", "error", "cplt"}
          /\ status[t] = SH2_ERR_IO <=> outcome[t] \in {"refused", "error"}
          /\ status[t] = SH2_OK <=> outcome[t] = "cplt"
          /\ t \in Callers => ret[t] = status[t]
    /\ \A t \in Tasks : pc[t] \in {"X_wait", "X_status"} => outcome[t] # "refused"

\* a caller got SH2_ERR_IO for a transfer that ended in the error handler
C3_ErrorReturned ==
    \E c \in Callers :
       Returned(c) /\ outcome[c] = "error" /\ ret[c] = SH2_ERR_IO

\* C4: a call of reset, tx, rx, block or unblock with a unit index >= SH2_UNITS
\* returns SH2_ERR_BAD_PARAM and changes nothing: not the mutex, the semaphores,
\* the pins, the driver, the units or i2cResetNeeded.
C4_BadUnitTouchesNothing ==
    [][\A c \in Callers :
          (pc[c] = "idle" /\ pc'[c] # "idle" /\ call'[c].unit >= SH2_UNITS) =>
             /\ pc'[c] = "done"
             /\ ret'[c] = SH2_ERR_BAD_PARAM
             /\ UNCHANGED <<i2cMutex, i2cBlockSem, i2cStatus, i2cResetNeeded,
                            evtQueue, sh2, gpio, bus, xfer, status>>]_vars

\* both callers are back from a call with a bad unit index, c1 from reset and
\* c2 from unblock
C4_BadUnitReturned ==
    /\ pc["c1"] = "done" /\ call["c1"].op = "reset"
    /\ call["c1"].unit >= SH2_UNITS /\ ret["c1"] = SH2_ERR_BAD_PARAM
    /\ pc["c2"] = "done" /\ call["c2"].op = "unblock"
    /\ call["c2"].unit >= SH2_UNITS /\ ret["c2"] = SH2_ERR_BAD_PARAM

\* the address constants, by unit and mode
ModeAddr(unit, mode) ==
    IF mode = "dfu"
    THEN (IF unit = 0 THEN 2 * ADDR_DFU_0 ELSE 2 * ADDR_DFU_1)
    ELSE (IF unit = 0 THEN 2 * ADDR_SH2_0 ELSE 2 * ADDR_SH2_1)

\* C5: once sh2_hal_reset(unit, mode) has returned, a tx or rx on that unit
\* that no reset overlaps issues its transfer to the address of that unit in
\* that mode.
C5_AddressOfMode ==
    \A x \in bus :
       (/\ x.task \in Callers
        /\ ~hist.overlap[x.task]
        /\ hist.mode[call[x.task].unit] # "none") =>
          x.addr = ModeAddr(call[x.task].unit, hist.mode[call[x.task].unit])

\* a transfer of a caller is in flight to the firmware-update address after a
\* reset into that mode
C5_DfuTransfer ==
    \E x \in bus :
       /\ x.task \in Callers
       /\ ~hist.overlap[x.task]
       /\ hist.mode[0] = "dfu"
       /\ x.addr = 2 * ADDR_DFU_0

\* the cargo length a header declares: the low 15 bits of its first two bytes,
\* low byte first
Declared(hdr) == (hdr[1] + 256 * hdr[2]) % 32768

Smaller(a, b) == IF a < b THEN a ELSE b
Larger(a, b) == IF a > b THEN a ELSE b

\* halTask is where no transfer of its own can write rxBuf
BufferAtRest == pc[HalTask] \notin {"X_wait", "X_status", "X_give", "W_cargo"}

\* C6: once halTask has decoded a read of L bytes whose header declares the
\* cargo length C, rxRemaining is C - L + 4 if C > L and 0 otherwise, and the
\* read length computed for the next interrupt event is
\* min(SH2_HAL_MAX_TRANSFER, C - L + 4) if C > L and 4 otherwise.
C6_ReadLengthStateMachine ==
    LET C == Declared(sh2[0].rxBuf)
        L == hist.lastLen
    IN  /\ L = 0 \/ (SHTP_HEADER_LEN <= L /\ L <= SH2_HAL_MAX_TRANSFER)
        /\ BufferAtRest =>
              sh2[0].rxRemaining = (IF C > L THEN (C - L) + 4 ELSE 0)
        /\ pc[HalTask] \in {"W_addr", "X_take", "X_reset", "X_issue"} =>
              readLen = (IF C > L
                         THEN Smaller(SH2_HAL_MAX_TRANSFER, (C - L) + 4)
                         ELSE 4)

\* after a full-size read of a message of three times that size, the next read
\* is computed: full-size again
C6_NextChunkCapped ==
    /\ pc[HalTask] = "W_addr"
    /\ hist.lastLen = SH2_HAL_MAX_TRANSFER
    /\ Declared(sh2[0].rxBuf) = 3 * SH2_HAL_MAX_TRANSFER
    /\ readLen = SH2_HAL_MAX_TRANSFER

\* C7: every read halTask issues has the length max(rxRemaining, 4) capped at
\* SH2_HAL_MAX_TRANSFER: never less than a header, never more than rxBuf holds.
C7_WorkerReadLength ==
    /\ \A x \in bus :
          x.task = HalTask =>
             /\ x.dir = "rx"
             /\ x.len = Smaller(SH2_HAL_MAX_TRANSFER,
                                Larger(sh2[0].rxRemaining, SHTP_HEADER_LEN))
             /\ SHTP_HEADER_LEN <= x.len
             /\ x.len <= SH2_HAL_MAX_TRANSFER
    /\ xfer[HalTask] # NoXfer =>
          xfer[HalTask].len = Smaller(SH2_HAL_MAX_TRANSFER,
                                      Larger(sh2[0].rxRemaining, SHTP_HEADER_LEN))

\* a read of halTask is in flight while more than a full transfer remains
C7_CappedReadInFlight ==
    \E x \in bus :
       /\ x.task = HalTask
       /\ sh2[0].rxRemaining > SH2_HAL_MAX_TRANSFER
       /\ x.len = SH2_HAL_MAX_TRANSFER

\* the message is through: the hub owes nothing and halTask waits for an event
\* with nothing left to read
MessageDone ==
    /\ dev.irq = "idle"
    /\ dev.owed = 0
    /\ evtQueue = <<>>
    /\ pc[HalTask] = "W_receive"
    /\ sh2[0].rxRemaining = 0

\* C8: a message whose first header declares 0, SH2_HAL_MAX_TRANSFER - 4,
\* SH2_HAL_MAX_TRANSFER or 3 * SH2_HAL_MAX_TRANSFER bytes, sent by a hub that
\* answers every read with the length it still owes and interrupts once per
\* chunk, is delivered in a bounded number of chunks of at most
\* SH2_HAL_MAX_TRANSFER bytes, after which rxRemaining is 0 for good and the
\* next read would be of the header alone.
C8_ReassemblyTerminates ==
    /\ [](\A x \in bus : x.len <= SH2_HAL_MAX_TRANSFER)
    /\ [](delivered.len <= SH2_HAL_MAX_TRANSFER)
    /\ [](dev.chunks <= 2 + (dev.total \div (SH2_HAL_MAX_TRANSFER - SHTP_HEADER_LEN)))
    /\ <>[](/\ MessageDone
            /\ ComputeReadLen(sh2[0].rxRemaining) = SHTP_HEADER_LEN)

\* the longest message is through, after more than three chunks
C8_LongMessageDone ==
    /\ MessageDone
    /\ dev.total = 3 * SH2_HAL_MAX_TRANSFER
    /\ dev.chunks > 3

\* the step takes the oldest event off evtQueue at the head of the loop of
\* halTask, with nothing of an earlier event left
Dequeue ==
    /\ pc[HalTask] = "W_receive"
    /\ event = NoEvent
    /\ delivered = NoDelivery
    /\ evtQueue # <<>>
    /\ event' = Head(evtQueue)
    /\ evtQueue' = Tail(evtQueue)
    /\ pc'[HalTask] = "W_check"

\* the step puts one event behind those already queued
Enqueue ==
    /\ Len(evtQueue') = Len(evtQueue) + 1
    /\ SubSeq(evtQueue', 1, Len(evtQueue)) = evtQueue

\* C9: evtQueue changes only by an event appended behind the others or by
\* halTask taking the oldest one, which it does only once the event before is
\* handled to the end (read, rxRemaining, callback); an event taken is handled
\* once and let go only after its callback; so events are handled in the order
\* of arrival, none twice, none merged.
C9_ArrivalOrder ==
    /\ [][evtQueue' # evtQueue => (Enqueue \/ Dequeue)]_vars
    /\ [][event' # event =>
            \/ Dequeue
            \/ /\ event' = NoEvent
               /\ pc[HalTask] = "W_return"
               /\ delivered.len = readLen
               /\ delivered.onRx # NullFn]_vars
    /\ [](\A i \in 1..Len(evtQueue) :
            /\ \A j \in i..Len(evtQueue) : evtQueue[i].t_ms <= evtQueue[j].t_ms
            /\ event # NoEvent => event.t_ms <= evtQueue[i].t_ms)

\* halTask is at the end of the callback for one event while two later ones,
\* the last of a later tick, wait
C9_LaterEventsWait ==
    /\ pc[HalTask] = "W_return"
    /\ Len(evtQueue) >= 2
    /\ event.t_ms < evtQueue[Len(evtQueue)].t_ms

\* C10: evtQueue never holds more than MAX_EVENTS events; the interrupt handler
\* can always run, and when it runs on a full queue nothing changes; so of a
\* burst of interrupts before the first dequeue, halTask takes MAX_EVENTS
\* events at most.
C10_QueueBounded ==
    /\ [](Len(evtQueue) <= MAX_EVENTS)
    /\ [](ENABLED (HAL_GPIO_EXTI_Callback /\ Quiet))
    /\ [][(hist'.posted = hist.posted + 1 /\ Len(evtQueue) = MAX_EVENTS) =>
            UNCHANGED <<i2cMutex, i2cBlockSem, i2cStatus, i2cResetNeeded,
                        evtQueue, sh2, gpio, bus, tick, pc, xfer, status, call,
                        ret, event, readLen, loaded, outcome, delivered>>]_vars
    /\ [](hist.posted = hist.burst =>
            hist.consumed + Len(evtQueue) = Smaller(hist.burst, MAX_EVENTS))

\* after a burst of more than MAX_EVENTS interrupts halTask has emptied the
\* queue: MAX_EVENTS events taken
C10_BurstDrained ==
    /\ hist.burst > MAX_EVENTS
    /\ hist.posted = hist.burst
    /\ hist.consumed = MAX_EVENTS
    /\ evtQueue = <<>>
    /\ pc[HalTask] = "W_receive"

\* what a dropped event must leave alone: the mutex, the bus and its driver,
\* the units (rxRemaining among their fields) and the callback
DropFrame ==
    UNCHANGED <<i2cMutex, i2cBlockSem, i2cStatus, i2cResetNeeded, sh2, gpio, bus,
                xfer, status, outcome, loaded, delivered>>

\* C11: an event halTask dequeues with a unit index out of range, of a kind
\* other than EVT_INTN, or of a unit without a callback is let go: from the
\* dequeue to the next wait on the queue halTask takes no mutex, issues no
\* transfer, calls no callback and leaves rxRemaining as it was.
C11_SilentDrop ==
    /\ [][(pc[HalTask] = "W_receive" /\ evtQueue' # evtQueue
             /\ Len(evtQueue') < Len(evtQueue)) =>
            /\ DropFrame
            /\ Head(evtQueue).unit >= SH2_UNITS =>
                  pc'[HalTask] = "W_receive" /\ event' = NoEvent]_vars
    /\ [][(pc[HalTask] = "W_check" /\ pc'[HalTask] # "W_check"
             /\ (event.id # EVT_INTN \/ sh2[event.unit].onRx = NullFn)) =>
            /\ DropFrame
            /\ pc'[HalTask] = "W_receive"
            /\ event' = NoEvent]_vars
    /\ [](pc[HalTask] \in {"W_receive", "W_check"} =>
            /\ i2cMutex # HalTask
            /\ \A x \in bus : x.task # HalTask
            /\ delivered = NoDelivery
            /\ xfer[HalTask] = NoXfer)

\* halTask has let go of an event of unknown kind while a callback is
\* registered and part of a message remains to be read
C11_UnknownKindDropped ==
    /\ hist.drop = "kind"
    /\ pc[HalTask] = "W_receive"
    /\ sh2[0].onRx # NullFn
    /\ sh2[0].rxRemaining > 0
    /\ i2cMutex = NoTask
    /\ bus = {}

\* C12: with a driver that ends every transfer, callbacks that return and a
\* fair scheduler, halTask is back at its wait on the queue after every event
\* it dequeues, also after a read that returned SH2_ERR_IO; it never ends up
\* anywhere for good.
C12_WorkerReturnsToWait ==
    /\ [](pc[HalTask] # "W_fault")
    /\ [](pc[HalTask] # "W_receive" => <>(pc[HalTask] = "W_receive"))

\* C13: sh2_hal_reset returns SH2_OK with i2cResetNeeded set; no transfer is
\* issued or in flight while the flag is set, because a task past the test in
\* i2cBlockingRx/Tx has found or made it clear; the flag is cleared only by the
\* task that holds the mutex, at that test, as part of a transaction whose
\* status is not touched by it.
C13_LazyBusRecovery ==
    /\ [][\A c \in Callers :
            (pc[c] = "reset_give" /\ pc'[c] = "done") =>
               i2cResetNeeded' /\ ret'[c] = SH2_OK]_vars
    /\ [][(bus' \ bus) # {} => (~i2cResetNeeded /\ ~i2cResetNeeded')]_vars
    /\ [](bus # {} => ~i2cResetNeeded)
    /\ [](\A t \in Tasks :
            pc[t] \in {"X_issue", "X_wait", "X_status", "X_give"} =>
               ~i2cResetNeeded)
    /\ [][(i2cResetNeeded /\ ~i2cResetNeeded') =>
            \E t \in Tasks :
               /\ pc[t] = "X_reset" /\ pc'[t] = "X_issue"
               /\ i2cMutex = t /\ i2cMutex' = t
               /\ status'[t] = SH2_OK
               /\ UNCHANGED <<i2cStatus, status, ret, bus>>]_vars

\* after a reset has returned, a transfer is in flight on the re-initialised
\* peripheral
C13_TransferAfterReinit ==
    /\ hist.mode[0] # "none"
    /\ bus # {}
    /\ ~i2cResetNeeded
    /\ \A c \in Callers : pc[c] \notin ResetPcs

\* caller c is inside sh2_hal_reset, past the take of the mutex
InReset(c) == pc[c] \in ResetPcs \ {"reset_take"}

\* C14: from the store of the callback to the give of the mutex, both delays
\* included, sh2_hal_reset holds i2cMutex: no transfer is issued or in flight,
\* no task is between the take and the give of a transaction and i2cReset does
\* not run; and while a transfer is in flight no control line is driven and no
\* unit's address, callback or cookie changes.
C14_ResetHoldsTheBus ==
    /\ [](\A c \in Callers :
            InReset(c) =>
               /\ i2cMutex = c
               /\ bus = {}
               /\ \A t \in Tasks : pc[t] \notin (XferPcs \ {"X_take"}))
    /\ [][(\E c \in Callers : InReset(c)) =>
            /\ bus' = {}
            /\ ~(i2cResetNeeded /\ ~i2cResetNeeded')]_vars
    /\ [][bus # {} =>
            /\ UNCHANGED gpio
            /\ \A u \in Units :
                  /\ sh2'[u].addr = sh2[u].addr
                  /\ sh2'[u].onRx = sh2[u].onRx
                  /\ sh2'[u].onRxCookie = sh2[u].onRxCookie]_vars

\* a reset is in its bootloader delay while another task waits to start a
\* transaction
C14_TransactionWaitsForReset ==
    \E c \in Callers :
       /\ pc[c] = "reset_dfudelay"
       /\ \E t \in Tasks \ {c} : pc[t] = "X_take" /\ xfer[t] # NoXfer

\* C15: sh2_hal_tx and sh2_hal_rx called with len = 0 on a valid unit return
\* SH2_OK at once: the mutex is not taken, i2cResetNeeded stays as it is and
\* nothing is issued; so no caller is ever in i2cBlockingTx/Rx with a length
\* of 0.
C15_ZeroLengthIsNoOp ==
    /\ [][\A c \in Callers :
            (/\ pc[c] = "idle" /\ pc'[c] # "idle"
             /\ call'[c].op \in {"tx", "rx"}
             /\ call'[c].unit < SH2_UNITS
             /\ call'[c].len = 0) =>
               /\ pc'[c] = "done"
               /\ ret'[c] = SH2_OK
               /\ UNCHANGED <<i2cMutex, i2cBlockSem, i2cStatus, i2cResetNeeded,
                              evtQueue, sh2, gpio, bus, xfer, status>>]_vars
    /\ [](\A c \in Callers :
            /\ pc[c] \in XferPcs => (xfer[c] # NoXfer /\ xfer[c].len > 0)
            /\ \A x \in bus : x.task = c => x.len > 0)

\* a receive of length 0 has returned SH2_OK and the peripheral is still
\* marked for re-initialisation
C15_ZeroLengthReturned ==
    /\ pc["c1"] = "done"
    /\ call["c1"] = XferCall("rx", 0, 0)
    /\ ret["c1"] = SH2_OK
    /\ i2cResetNeeded
    /\ i2cMutex = NoTask
    /\ hist.mode[0] # "none"

\* the status the handler of the transfer of task t has written
HandlerStatus(t) == IF outcome[t] = "cplt" THEN SH2_OK ELSE SH2_ERR_IO

\* C16: a task gets past its wait in i2cBlockingRx/Tx only once the completion
\* or error handler of its own transfer has run; i2cStatus is what that handler
\* wrote until the task has read it, and that is what the task returns; a
\* signal is pending only for the task whose transfer has just ended, never
\* when the mutex is free or a transaction is about to issue its transfer.
C16_RendezvousWithOwnHandler ==
    /\ [](\A t \in Tasks :
            /\ pc[t] = "X_status" =>
                  /\ outcome[t] \in {"cplt", "error"}
                  /\ \A x \in bus : x.task # t
                  /\ i2cStatus = HandlerStatus(t)
            /\ (pc[t] = "X_give" /\ outcome[t] # "refused") =>
                  /\ outcome[t] \in {"cplt", "error"}
                  /\ status[t] = HandlerStatus(t)
            /\ pc[t] \in {"X_reset", "X_issue"} => i2cBlockSem = 0)
    /\ [](i2cMutex = NoTask => i2cBlockSem = 0)
    /\ [](i2cBlockSem = 1 =>
            /\ bus = {}
            /\ \E t \in Tasks :
                  /\ pc[t] = "X_wait"
                  /\ i2cMutex = t
                  /\ outcome[t] \in {"cplt", "error"}
                  /\ i2cStatus = HandlerStatus(t))
    /\ [][(i2cBlockSem = 1 \/ \E t \in Tasks : pc[t] = "X_status") =>
            UNCHANGED i2cStatus]_vars

\* the error handler has signalled and the issuer is about to read the status
\* it wrote, after an earlier transfer that ended well
C16_ErrorStatusToBeRead ==
    \E t \in Tasks :
       /\ pc[t] = "X_status"
       /\ outcome[t] = "error"
       /\ i2cStatus = SH2_ERR_IO
       /\ i2cBlockSem = 0
       /\ \E d \in Tasks \ {t} : pc[d] = "X_take"

\* C17: rxRemaining is written only after a read that succeeded: when the
\* read halTask made for an event has returned SH2_ERR_IO, the step that
\* follows the read leaves rxRemaining of the unit as it was.
C17_FailedReadKeepsRemainder ==
    [][(/\ pc[HalTask] = "W_cargo"
        /\ pc'[HalTask] # "W_cargo"
        /\ status[HalTask] = SH2_ERR_IO) =>
          sh2'[event.unit].rxRemaining = sh2[event.unit].rxRemaining]_vars

\* the order of the loop body of halTask for an interrupt event: the test and
\* the read length, the arguments, the transaction, the decoding, the two loads
\* and the call
WorkerOrder ==
    {<<"W_receive", "W_check">>, <<"W_check", "W_addr">>,
     <<"W_check", "W_receive">>, <<"W_addr", "X_take">>,
     <<"X_take", "X_reset">>, <<"X_reset", "X_issue">>, <<"X_issue", "X_wait">>,
     <<"X_issue", "X_give">>, <<"X_wait", "X_status">>, <<"X_status", "X_give">>,
     <<"X_give", "W_cargo">>, <<"W_cargo", "W_load">>, <<"W_load", "W_load_fn">>,
     <<"W_load", "W_load_ck">>, <<"W_load_fn", "W_call">>,
     <<"W_load_ck", "W_call">>, <<"W_call", "W_return">>,
     <<"W_return", "W_receive">>}

BootnOf(dfuMode) == ~dfuMode

\* C19: sh2_hal_reset drives RSTN low, then BOOTN to the level of the mode,
\* waits, drives RSTN high, and waits again only for the firmware-update mode;
\* BOOTN changes only while RSTN is low, and when the reset returns RSTN is
\* high and BOOTN is at the level of the requested mode.
C19_ControlLineOrder ==
    /\ [][gpio'.bootn # gpio.bootn => (~gpio.rstn /\ ~gpio'.rstn)]_vars
    /\ [][gpio' # gpio =>
            \E c \in Callers :
               /\ pc[c] \in {"reset_rstn0", "reset_bootn", "reset_delay"}
               /\ pc'[c] # pc[c]]_vars
    /\ [][\A c \in Callers :
            /\ (pc[c] = "reset_rstn0" /\ pc'[c] # pc[c]) =>
                  (pc'[c] = "reset_bootn" /\ ~gpio'.rstn)
            /\ (pc[c] = "reset_bootn" /\ pc'[c] # pc[c]) =>
                  (pc'[c] = "reset_delay" /\ gpio'.bootn = BootnOf(call[c].dfuMode))
            /\ (pc[c] = "reset_delay" /\ pc'[c] # pc[c]) =>
                  /\ gpio'.rstn
                  /\ pc'[c] = (IF call[c].dfuMode THEN "reset_dfudelay"
                               ELSE "reset_flag")
            /\ (pc[c] = "reset_dfudelay" /\ pc'[c] # pc[c]) =>
                  pc'[c] = "reset_flag"
            /\ (pc[c] = "reset_give" /\ pc'[c] # pc[c]) =>
                  /\ pc'[c] = "done"
                  /\ gpio'.rstn
                  /\ gpio'.bootn = BootnOf(call[c].dfuMode)]_vars
    /\ [](\A c \in Callers :
            /\ pc[c] \in {"reset_bootn", "reset_delay"} => ~gpio.rstn
            /\ pc[c] \in {"reset_dfudelay", "reset_flag", "reset_give"} =>
                  (gpio.rstn /\ gpio.bootn = BootnOf(call[c].dfuMode)))

\* a reset into the firmware-update mode has returned after one into the
\* normal mode: RSTN high, BOOTN low
C19_DfuResetReturned ==
    /\ pc["c1"] = "done"
    /\ call["c1"].op = "reset"
    /\ call["c1"].unit = 0
    /\ call["c1"].dfuMode
    /\ ret["c1"] = SH2_OK
    /\ hist.mode[0] = "dfu"
    /\ gpio = [rstn |-> TRUE, bootn |-> FALSE]

\* the registrations an event may be delivered under: that of the last reset
\* which had returned when the event was dequeued, or that of a reset in
\* progress then or called since, which replaces it in turn
Standing == hist.seen \cup hist.since

\* C20: sh2_hal_reset replaces the registration of the unit: for an event
\* dequeued after a reset has returned, halTask calls the callback of the
\* standing registration with the context of the same registration, and while
\* the standing registration has the null callback it drops the event without
\* a read.
C20_ResetReplacesRegistration ==
    /\ [][(pc[HalTask] = "W_call" /\ pc'[HalTask] # "W_call" /\ hist.seen # {}) =>
            loaded \in Standing]_vars
    /\ [][(/\ pc[HalTask] = "W_check"
           /\ pc'[HalTask] # "W_check"
           /\ event.id = EVT_INTN
           /\ hist.seen # {}
           /\ \A r \in Standing : r.onRx = NullFn) =>
            (pc'[HalTask] = "W_receive" /\ xfer' = xfer /\ bus' = bus)]_vars

\* caller c takes a step of sh2_hal_block or sh2_hal_unblock
GateStep(c) ==
    /\ pc'[c] # pc[c]
    /\ \/ pc[c] = "block_take"
       \/ pc[c] = "idle" /\ call'[c].op \in {"block", "unblock"}

\* C21: the gate of a unit starts empty and holds at most one signal; only
\* sh2_hal_unblock of that unit signals it, a second unblock leaves it at one
\* signal, sh2_hal_block returns only by consuming the signal of its own unit,
\* and neither call touches i2cMutex, i2cBlockSem, i2cStatus, the bus or the
\* event queue.
C21_BlockingGate ==
    /\ \A u \in Units : sh2[u].blockSem = 0
    /\ [](\A u \in Units : sh2[u].blockSem \in {0, 1})
    /\ [][\A u \in Units :
            sh2'[u].blockSem > sh2[u].blockSem =>
               \E c \in Callers : /\ pc[c] = "idle"
                                  /\ pc'[c] = "done"
                                  /\ call'[c] = GateCall("unblock", u)]_vars
    /\ [][\A c \in Callers :
            (pc[c] = "block_take" /\ pc'[c] # pc[c]) =>
               /\ sh2[call[c].unit].blockSem = 1
               /\ sh2'[call[c].unit].blockSem = 0
               /\ \A u \in Units \ {call[c].unit} :
                     sh2'[u].blockSem = sh2[u].blockSem
               /\ pc'[c] = "done"
               /\ ret'[c] = SH2_OK]_vars
    /\ [][\A c \in Callers :
            GateStep(c) =>
               /\ UNCHANGED <<i2cMutex, i2cBlockSem, i2cStatus, i2cResetNeeded,
                              evtQueue, bus, xfer, gpio>>
               /\ \A u \in Units :
                     [sh2'[u] EXCEPT !.blockSem = 0] = [sh2[u] EXCEPT !.blockSem = 0]]_vars

\* one caller has returned from sh2_hal_block and the other waits in it: the
\* signal that let the first one through is used up
C21_OneReturnedOneWaits ==
    /\ pc["c1"] = "done"
    /\ call["c1"] = GateCall("block", 0)
    /\ ret["c1"] = SH2_OK
    /\ pc["c2"] = "block_take"
    /\ call["c2"].unit = 0
    /\ sh2[0].blockSem = 0

\* t_ms * 1000 without a width, as <<bits 32.., bits 16..31, bits 0..15>>
Times1000(t_ms) ==
    LET lo == (t_ms % 65536) * 1000
        hi == (t_ms \div 65536) * 1000 + (lo \div 65536)
    IN  <<hi \div 65536, hi % 65536, lo % 65536>>

\* timestamps a and b, each <<high half, low half>>, with a <= b
StampLeq(a, b) == a[1] < b[1] \/ (a[1] = b[1] /\ a[2] <= b[2])

\* C22: the callback receives the tick count of the event times 1000, for any
\* tick count, and no timestamp is below the one of the callback before.
C22_TimestampMicroseconds ==
    [][(pc[HalTask] = "W_call" /\ pc'[HalTask] = "W_return") =>
          /\ <<0>> \o delivered'.t_us = Times1000(event.t_ms)
          /\ StampLeq(hist.stamp, delivered'.t_us)]_vars

\* C23: the callback halTask calls is not the null pointer, whatever
\* sh2_hal_reset does between the test of onRx and the call.
C23_NeverCallsNullCallback ==
    [][(pc[HalTask] = "W_call" /\ pc'[HalTask] # "W_call") =>
          (loaded.onRx # NullFn /\ pc'[HalTask] = "W_return")]_vars

\* C24: halTask calls a callback with the context registered together with
\* it: the pair it calls with is the pair of one sh2_hal_reset call.
C24_CallbackWithItsContext ==
    [][(pc[HalTask] = "W_call" /\ pc'[HalTask] = "W_return") =>
          [onRx |-> delivered'.onRx, cookie |-> delivered'.cookie]
             \in Registrations]_vars

\* C25: a sh2_hal_tx or sh2_hal_rx that a sh2_hal_reset of its unit overlaps
\* issues its bus transaction, once it has the mutex, to the address the unit
\* has then, the one the last reset stored.
C25_AddressOfTheLastReset ==
    [][\A c \in Callers :
          (/\ pc[c] = "X_issue"
           /\ pc'[c] # pc[c]
           /\ call[c].op \in {"tx", "rx"}
           /\ hist.overlap[c]) =>
             xfer[c].addr = sh2[call[c].unit].addr]_vars

\* caller c takes a step of sh2_hal_reset
ResetStep(c) ==
    /\ pc'[c] # pc[c]
    /\ \/ pc[c] \in ResetPcs
       \/ pc[c] = "idle" /\ call'[c].op = "reset"

\* C26: no step of sh2_hal_reset changes rxRemaining or rxBuf of a unit; only
\* halTask writes rxRemaining, where it decodes a read; and the read for an
\* event is sized from rxRemaining as it stands, reset or not.
C26_ResetKeepsRemainder ==
    /\ [][\A c \in Callers : ResetStep(c) =>
             \A u \in Units : /\ sh2'[u].rxRemaining = sh2[u].rxRemaining
                              /\ sh2'[u].rxBuf = sh2[u].rxBuf]_vars
    /\ [][(\E u \in Units : sh2'[u].rxRemaining # sh2[u].rxRemaining) =>
             (pc[HalTask] = "W_cargo" /\ pc'[HalTask] = "W_load")]_vars
    /\ [][(pc[HalTask] = "W_check" /\ pc'[HalTask] = "W_addr") =>
             readLen' = ComputeReadLen(sh2[event.unit].rxRemaining)]_vars

\* a reset is about to return while the hub still owes 20 bytes, and halTask
\* has sized the read for the next event with them
C26_RemainderAcrossReset ==
    /\ pc["c1"] = "reset_give"
    /\ call["c1"].unit = 0
    /\ sh2[0].rxRemaining = 20
    /\ pc[HalTask] = "X_take"
    /\ xfer[HalTask].len = 20
    /\ readLen = 20

\* C27: rxRemaining of every unit is 0 or lies in 5..32767 in every state:
\* where halTask decodes a read, the cargo length is at most 32767 and the
\* read was at least 4 bytes long, and cargoLen - readLen + 4 is stored, as
\* it is, only when cargoLen > readLen.
C27_RemainderInRange ==
    /\ [](\A u \in Units :
            sh2[u].rxRemaining = 0 \/ sh2[u].rxRemaining \in 5 .. 32767)
    /\ [][(pc[HalTask] = "W_cargo" /\ pc'[HalTask] = "W_load") =>
            LET cargo == CargoLen(sh2[event.unit].rxBuf)
            IN  /\ cargo \in 0 .. 32767
                /\ readLen \in SHTP_HEADER_LEN .. SH2_HAL_MAX_TRANSFER
                /\ sh2'[event.unit].rxRemaining =
                      (IF cargo > readLen THEN cargo - readLen + SHTP_HEADER_LEN
                       ELSE 0)]_vars

\* the largest remainder: a header of 32767 bytes answered a 4-byte read
C27_LargestRemainder ==
    /\ pc[HalTask] = "W_load"
    /\ readLen = SHTP_HEADER_LEN
    /\ CargoLen(sh2[0].rxBuf) = 32767
    /\ sh2[0].rxRemaining = 32767

====
